---- MODULE Spec2Model ----
(***************************************************************************)
(* A model of the webcam resolution core of the OctoApp plugin:            *)
(*   src/octoapp/webcamhelper.py                                           *)
(*   src/octoprint_octoeverywhere/octoprintwebcamhelper.py                 *)
(*                                                                         *)
(* Python values are tagged records (PyNone, PyStr, PyBool, PyInt), so     *)
(* that a field holding a value of the wrong type is a state of the model. *)
(* Strings and byte buffers are sequences of character codes / bytes.      *)
(***************************************************************************)
EXTENDS Integers, Sequences, FiniteSets, TLC

VARIABLES
    webcamConfig,       \* what the platform's GetWebcamConfig() gives now (environment)
    octoPrintSettings,  \* OctoPrintWebcamHelper.OctoPrintSettingsObject (environment)
    DefaultCameraName,  \* WebcamHelper.DefaultCameraName
    settingsFile,       \* the file at WebcamHelper.SettingsFilePath
    call,       \* the call under way: its function and its arguments
    callRet,    \* what that call returned (NotReturned before it has)
    pc,         \* where the request under way stands
    httpLog,    \* the calls made to OctoHttpRequest.MakeHttpCall, in order
    responses,  \* the response objects those calls returned, by call site
    result,     \* the OctoHttpRequest.Result the request holds
    resolved,   \* the camera each _GetWebcamSettingObj call of the request gave
    changes     \* how often the platform's cameras changed during the request

platformVars == <<webcamConfig, octoPrintSettings>>
storeVars == <<DefaultCameraName, settingsFile>>
callVars == <<call, callRet>>
requestVars == <<pc, httpLog, responses, result, resolved, changes>>
vars == <<platformVars, storeVars, callVars, requestVars>>

(***************************************************************************)
(* Python values                                                           *)
(***************************************************************************)
PyNone == [t |-> "none"]
PyStr(s) == [t |-> "str", s |-> s]
PyBool(b) == [t |-> "bool", b |-> b]
PyInt(i) == [t |-> "int", i |-> i]
\* The outcome of a call that raised instead of returning.
Raised == [t |-> "raise"]
NotReturned == [t |-> "pending"]

\* len(v) is defined on strings only; on None, a bool or an int it raises TypeError.
IsSized(v) == v.t = "str"

\* bool(v)
PyTruthy(v) ==
    CASE v.t = "none" -> FALSE
      [] v.t = "bool" -> v.b
      [] v.t = "int" -> v.i # 0
      [] v.t = "str" -> Len(v.s) > 0

\* v == n for an int n; a bool compares as 0 or 1, a string or None is never equal.
PyEqInt(v, n) ==
    CASE v.t = "int" -> v.i = n
      [] v.t = "bool" -> (IF v.b THEN 1 ELSE 0) = n
      [] OTHER -> FALSE

(***************************************************************************)
(* Strings                                                                 *)
(***************************************************************************)
\* str.lower() on one character code: ASCII and Latin-1 capitals.  (Capitals
\* of other scripts are not among the characters of the model.)
LowerChar(c) ==
    IF c >= 65 /\ c <= 90 THEN c + 32
    ELSE IF c >= 192 /\ c <= 222 /\ c # 215 THEN c + 32
    ELSE c

\* U+0130 (capital I with dot above) is the one character whose lower-case
\* form is two characters long: "i" followed by U+0307.
s_LowerIDot == <<105, 775>>

\* str.lower(): character by character, so that the result is longer than
\* the string by one for every U+0130 in it.
Lower(s) ==
    IF \A i \in 1..Len(s) : s[i] # 304
    THEN [i \in 1..Len(s) |-> LowerChar(s[i])]
    ELSE
    LET before(i) == Cardinality({j \in 1..i : s[j] = 304})
    IN  [k \in 1..(Len(s) + before(Len(s))) |->
            LET i == CHOOSE i \in 1..Len(s) : i + before(i - 1) <= k /\ k <= i + before(i)
            IN  IF s[i] = 304 THEN s_LowerIDot[k - (i + before(i - 1)) + 1]
                ELSE LowerChar(s[i])]

(***************************************************************************)
(* Bytes and text, as the frame extractor uses them                        *)
(***************************************************************************)
PyBytes(b) == [t |-> "bytes", b |-> b]

s_CRLF == <<13, 10>>
s_CRLFCRLF == <<13, 10, 13, 10>>
s_contentType == <<99, 111, 110, 116, 101, 110, 116, 45, 116, 121, 112, 101>>  \* "content-type"
s_contentLength ==      \* "content-length"
    <<99, 111, 110, 116, 101, 110, 116, 45, 108, 101, 110, 103, 116, 104>>
s_multipart == <<109, 117, 108, 116, 105, 112, 97, 114, 116, 47>>    \* "multipart/"

\* buf[:n]
PySliceTo(buf, n) ==
    IF n >= Len(buf) THEN buf
    ELSE IF n >= 0 THEN SubSeq(buf, 1, n)
    ELSE IF Len(buf) + n > 0 THEN SubSeq(buf, 1, Len(buf) + n)
    ELSE <<>>

\* buf[n:]
PySliceFrom(buf, n) ==
    IF n >= Len(buf) THEN <<>>
    ELSE IF n >= 0 THEN SubSeq(buf, n + 1, Len(buf))
    ELSE IF Len(buf) + n > 0 THEN SubSeq(buf, Len(buf) + n + 1, Len(buf))
    ELSE buf

\* s.startswith(prefix)
StartsWith(s, prefix) ==
    /\ Len(s) >= Len(prefix)
    /\ \A i \in 1..Len(prefix) : s[i] = prefix[i]

\* s.find(sub): the least 0-based index at which sub occurs in s, or -1.
Find(s, sub) ==
    LET hits == {i \in 0..(Len(s) - Len(sub)) : \A j \in 1..Len(sub) : s[i + j] = sub[j]}
    IN  IF hits = {} THEN -1 ELSE CHOOSE i \in hits : \A k \in hits : i <= k

\* s.split(sep), for a separator that cannot overlap itself ("\r\n", ":"):
\* the pieces between its occurrences, in order.
Split(s, sep) ==
    LET hits == {i \in 0..(Len(s) - Len(sep)) : \A j \in 1..Len(sep) : s[i + j] = sep[j]}
        n == Cardinality(hits)
        Kth(k) == CHOOSE i \in hits : Cardinality({j \in hits : j < i}) = k - 1
        from(k) == IF k = 1 THEN 1 ELSE Kth(k - 1) + Len(sep) + 1
        to(k) == IF k = n + 1 THEN Len(s) ELSE Kth(k)
    IN  [k \in 1..(n + 1) |-> SubSeq(s, from(k), to(k))]

\* The characters str.strip() removes (the ASCII ones, NEL and NBSP).
IsSpace(c) == c \in {9, 10, 11, 12, 13, 28, 29, 30, 31, 32, 133, 160}

\* s.strip()
Strip(s) ==
    LET keep == {i \in 1..Len(s) : ~IsSpace(s[i])}
    IN  IF keep = {} THEN <<>>
        ELSE SubSeq(s, CHOOSE i \in keep : \A k \in keep : i <= k,
                       CHOOSE i \in keep : \A k \in keep : i >= k)

\* UTF-8: the number of bytes of the well-formed sequence that starts at b[i],
\* or 0 when none does.
Utf8Len(b, i) ==
    LET c == b[i]
        cont(k) == i + k <= Len(b) /\ b[i + k] >= 128 /\ b[i + k] <= 191
    IN  IF c < 128 THEN 1
        ELSE IF c >= 194 /\ c <= 223 /\ cont(1) THEN 2
        ELSE IF /\ c >= 224 /\ c <= 239 /\ cont(1) /\ cont(2)
                /\ (c = 224 => b[i + 1] >= 160)
                /\ (c = 237 => b[i + 1] <= 159) THEN 3
        ELSE IF /\ c >= 240 /\ c <= 244 /\ cont(1) /\ cont(2) /\ cont(3)
                /\ (c = 240 => b[i + 1] >= 144)
                /\ (c = 244 => b[i + 1] <= 143) THEN 4
        ELSE 0

\* The code point of the well-formed sequence of n bytes at b[i].
Utf8Char(b, i, n) ==
    CASE n = 1 -> b[i]
      [] n = 2 -> (b[i] - 192) * 64 + (b[i + 1] - 128)
      [] n = 3 -> (b[i] - 224) * 4096 + (b[i + 1] - 128) * 64 + (b[i + 2] - 128)
      [] n = 4 -> (b[i] - 240) * 262144 + (b[i + 1] - 128) * 4096
                    + (b[i + 2] - 128) * 64 + (b[i + 3] - 128)

\* bytes.decode(errors="ignore") of b[lo..hi]: a byte that starts no well-formed
\* sequence (a stray continuation byte, a lead byte whose sequence is cut or
\* malformed) is dropped; the bytes inside a well-formed sequence start none.
RECURSIVE DecodeRange(_, _, _)
DecodeRange(b, lo, hi) ==
    IF lo > hi THEN <<>>
    ELSE IF lo = hi
         THEN LET n == Utf8Len(b, lo)
              IN  IF n = 0 \/ (b[lo] >= 128 /\ b[lo] <= 191) THEN <<>>
                  ELSE <<Utf8Char(b, lo, n)>>
    ELSE LET mid == (lo + hi) \div 2
         IN  DecodeRange(b, lo, mid) \o DecodeRange(b, mid + 1, hi)

Decode(b) == DecodeRange(b, 1, Len(b))

IsDigit(c) == c >= 48 /\ c <= 57

RECURSIVE DigitsValue(_, _)
DigitsValue(s, k) ==
    IF k = 0 THEN 0
    ELSE IF s[k] = 95 THEN DigitsValue(s, k - 1)
    ELSE 10 * DigitsValue(s, k - 1) + (s[k] - 48)

\* int(s): surrounding blanks, a sign, decimal digits with single underscores
\* between them; anything else raises ValueError.
IntParse(s) ==
    LET t == Strip(s)
        signed == Len(t) > 0 /\ t[1] \in {43, 45}
        d == IF signed THEN PySliceFrom(t, 1) ELSE t
        wellFormed ==
            /\ Len(d) > 0
            /\ \A i \in 1..Len(d) :
                  \/ IsDigit(d[i])
                  \/ /\ d[i] = 95
                     /\ i > 1 /\ i < Len(d)
                     /\ IsDigit(d[i - 1]) /\ IsDigit(d[i + 1])
    IN  IF ~wellFormed THEN [ok |-> FALSE, v |-> 0]
        ELSE [ok |-> TRUE,
              v |-> IF signed /\ t[1] = 45 THEN 0 - DigitsValue(d, Len(d))
                    ELSE DigitsValue(d, Len(d))]

\* str(n) for an integer n
RECURSIVE NatToStr(_)
NatToStr(n) ==
    IF n < 10 THEN <<48 + n>> ELSE NatToStr(n \div 10) \o <<48 + (n % 10)>>

IntToStr(n) == IF n < 0 THEN <<45>> \o NatToStr(0 - n) ELSE NatToStr(n)

(***************************************************************************)
(* WebcamSettingItem                                                       *)
(***************************************************************************)
\* WebcamSettingItem.__init__, with its positional parameter order.
WebcamSettingItem(name, snapshotUrl, streamUrl, flipHBool, flipVBool, rotationInt) ==
    [Name |-> name, SnapshotUrl |-> snapshotUrl, StreamUrl |-> streamUrl,
     FlipH |-> flipHBool, FlipV |-> flipVBool, Rotation |-> rotationInt]

\* "x is None or len(x) == 0", with len() raising on a value that has no length.
\* Returns "yes", "no" or "raise".
NoneOrEmpty(x) ==
    IF x = PyNone THEN "yes"
    ELSE IF ~IsSized(x) THEN "raise"
    ELSE IF Len(x.s) = 0 THEN "yes" ELSE "no"

\* The rotation test of Validate: None, or none of 0, 90, 180, 270.
RotationInvalid_NoCheck(rotation) == rotation = PyNone

RotationInvalid(rotation) ==
    \/ rotation = PyNone
    \/ /\ ~PyEqInt(rotation, 0)
       /\ ~PyEqInt(rotation, 90)
       /\ ~PyEqInt(rotation, 180)
       /\ ~PyEqInt(rotation, 270)

\* WebcamSettingItem.Validate: the returned value (or Raised) and the item as
\* the call leaves it (the flip fields are coerced on the way).
Validate(self) ==
    LET nameE == NoneOrEmpty(self.Name)
        snapE == NoneOrEmpty(self.SnapshotUrl)
        strmE == NoneOrEmpty(self.StreamUrl)
        h == [self EXCEPT !.FlipH = PyBool(PyTruthy(self.FlipH))]
        hv == [h EXCEPT !.FlipV = PyBool(PyTruthy(self.FlipV))]
    IN  IF nameE = "raise" THEN [ret |-> Raised, self |-> self]
        ELSE IF nameE = "yes" THEN [ret |-> PyBool(FALSE), self |-> self]
        ELSE IF RotationInvalid(self.Rotation) THEN [ret |-> PyBool(FALSE), self |-> self]
        ELSE IF snapE = "raise" THEN [ret |-> Raised, self |-> self]
        \* "and" short-circuits: the stream URL is looked at only if the snapshot URL is empty
        ELSE IF snapE = "yes" /\ strmE = "raise" THEN [ret |-> Raised, self |-> self]
        ELSE IF snapE = "yes" /\ strmE = "yes" THEN [ret |-> PyBool(FALSE), self |-> self]
        ELSE IF self.FlipH = PyNone THEN [ret |-> PyBool(FALSE), self |-> self]
        ELSE IF self.FlipV = PyNone THEN [ret |-> PyBool(FALSE), self |-> h]
        ELSE [ret |-> PyBool(TRUE), self |-> hv]

(***************************************************************************)
(* Validate as a pure call: every item whose fields have the types the     *)
(* constructor declares (str, bool, int), or None, or a truthy/falsy       *)
(* non-bool flip flag.                                                     *)
(***************************************************************************)
s_Cam1 == <<67, 97, 109, 49>>           \* "Cam1"
s_cam1 == <<99, 97, 109, 49>>           \* "cam1"
s_CAM2 == <<67, 65, 77, 50>>            \* "CAM2"
s_cam2 == <<99, 97, 109, 50>>           \* "cam2"
s_Back == <<66, 97, 99, 107>>           \* "Back"
s_snap == <<47, 115, 110, 97, 112>>     \* "/snap"
s_stream == <<47, 115, 116, 114, 101, 97, 109>>   \* "/stream"

\* The largest rotation probed is 90 * MaxQuarterTurns; one off-grid value
\* lies between each pair of quarter turns.
MaxQuarterTurns == 4

ValidateNames == {PyNone, PyStr(<<>>), PyStr(s_Cam1)}
ValidateRotations ==
    {PyNone, PyInt(-90)}
        \cup {PyInt(90 * k) : k \in 0..MaxQuarterTurns}
        \cup {PyInt(90 * k + 45) : k \in 0..MaxQuarterTurns}
ValidateSnapshotUrls == {PyNone, PyStr(<<>>), PyStr(s_snap)}
ValidateStreamUrls == {PyNone, PyStr(<<>>), PyStr(s_stream)}
ValidateFlips == {PyNone, PyBool(FALSE), PyBool(TRUE), PyInt(0), PyInt(1)}

ValidateInputs ==
    {WebcamSettingItem(n, s, m, h, v, r) :
        n \in ValidateNames, s \in ValidateSnapshotUrls, m \in ValidateStreamUrls,
        h \in ValidateFlips, v \in ValidateFlips, r \in ValidateRotations}

\* No platform, no default camera, no settings file: the state of the parts a
\* pure call does not touch.
CfgNone == [st |-> "none", items |-> <<>>]
FileAbsent == [exists |-> FALSE]
NoResponses == [snapshot |-> PyNone, fallback |-> PyNone, stream |-> PyNone]

\* No request is under way.
RequestIdle ==
    /\ pc = "idle"
    /\ httpLog = <<>>
    /\ responses = NoResponses
    /\ result = PyNone
    /\ resolved = <<>>
    /\ changes = 0

PureCallIdle ==
    /\ webcamConfig = CfgNone
    /\ octoPrintSettings = PyNone
    /\ DefaultCameraName = PyNone
    /\ settingsFile = FileAbsent
    /\ RequestIdle

InitValidate ==
    /\ PureCallIdle
    /\ call \in {[fn |-> "Validate", self |-> i] : i \in ValidateInputs}
    /\ callRet = NotReturned

CallValidate ==
    /\ call.fn = "Validate"
    /\ callRet = NotReturned
    /\ callRet' = Validate(call.self)
    /\ UNCHANGED <<call, platformVars, storeVars, requestVars>>

NextValidate == CallValidate

SpecValidate == InitValidate /\ [][NextValidate]_vars

\* The four ways an item is invalid, stated on the fields as the claim states them.
AbsentOrEmpty(x) == x = PyNone \/ (x.t = "str" /\ Len(x.s) = 0)

ItemInvalid(i) ==
    \/ AbsentOrEmpty(i.Name)
    \/ i.Rotation \notin {PyInt(0), PyInt(90), PyInt(180), PyInt(270)}
    \/ (AbsentOrEmpty(i.SnapshotUrl) /\ AbsentOrEmpty(i.StreamUrl))
    \/ i.FlipH = PyNone
    \/ i.FlipV = PyNone

\* C10: Validate() returns false for every item with an empty or absent name,
\* a rotation outside {0, 90, 180, 270}, no URL at all, or an absent flip flag;
\* for every other item it returns true and both flip fields are then booleans.
C10_ValidateDecides ==
    (call.fn = "Validate" /\ callRet # NotReturned) =>
        IF ItemInvalid(call.self)
        THEN callRet.ret = PyBool(FALSE)
        ELSE /\ callRet.ret = PyBool(TRUE)
             /\ callRet.self.FlipH.t = "bool"
             /\ callRet.self.FlipV.t = "bool"
             /\ callRet.self.FlipH.b = PyTruthy(call.self.FlipH)
             /\ callRet.self.FlipV.b = PyTruthy(call.self.FlipV)

\* C10 witness: a valid item with non-bool flip flags has been validated, and so
\* has an item that is invalid only by its rotation.
C10_Witness ==
    /\ call.fn = "Validate"
    /\ callRet # NotReturned
    /\ ~ItemInvalid(call.self)
    /\ call.self.FlipH = PyInt(1)
    /\ call.self.FlipV = PyInt(0)
    /\ call.self.Rotation = PyInt(270)
    /\ callRet.ret = PyBool(TRUE)

(***************************************************************************)
(* JSON, as json.dumps writes it and json.load reads it                    *)
(***************************************************************************)
s_DefaultWebcamName ==  \* "DefaultWebcamName"
    <<68, 101, 102, 97, 117, 108, 116, 87, 101, 98, 99, 97, 109, 78, 97, 109, 101>>
s_hexDigits ==          \* "0123456789abcdef"
    <<48, 49, 50, 51, 52, 53, 54, 55, 56, 57, 97, 98, 99, 100, 101, 102>>
s_null == <<110, 117, 108, 108>>            \* "null"
s_true == <<116, 114, 117, 101>>            \* "true"
s_false == <<102, 97, 108, 115, 101>>       \* "false"

\* A dict with string keys, in insertion order.
PyDict(keys, vals) == [t |-> "dict", keys |-> keys, vals |-> vals]

\* The four hex digits of a code point below 0x10000.
Hex4(c) ==
    << s_hexDigits[((c \div 4096) % 16) + 1], s_hexDigits[((c \div 256) % 16) + 1],
       s_hexDigits[((c \div 16) % 16) + 1], s_hexDigits[(c % 16) + 1] >>

\* json.dumps (ensure_ascii): how one character of a string is written.
JsonEscapeChar_Raw(c) == <<c>>

JsonEscapeChar(c) ==
    CASE c = 34 -> <<92, 34>>
      [] c = 92 -> <<92, 92>>
      [] c = 10 -> <<92, 110>>
      [] c = 13 -> <<92, 114>>
      [] c = 9 -> <<92, 116>>
      [] c = 8 -> <<92, 98>>
      [] c = 12 -> <<92, 102>>
      [] c >= 32 /\ c <= 126 -> <<c>>
      [] OTHER -> <<92, 117>> \o Hex4(c)

RECURSIVE JsonEscape(_)
JsonEscape(s) ==
    IF s = <<>> THEN <<>> ELSE JsonEscapeChar(Head(s)) \o JsonEscape(Tail(s))

\* json.dumps of a string, None, a bool or an int.
JsonDumpsScalar(v) ==
    CASE v.t = "str" -> <<34>> \o JsonEscape(v.s) \o <<34>>
      [] v.t = "none" -> s_null
      [] v.t = "bool" -> (IF v.b THEN s_true ELSE s_false)
      [] v.t = "int" -> IntToStr(v.i)

\* json.dumps of a dict of scalars: {"key": value, "key": value}
RECURSIVE JsonDumpsMembers(_, _)
JsonDumpsMembers(d, k) ==
    IF k > Len(d.keys) THEN <<>>
    ELSE (IF k > 1 THEN <<44, 32>> ELSE <<>>)
            \o <<34>> \o JsonEscape(d.keys[k]) \o <<34, 58, 32>> \o JsonDumpsScalar(d.vals[k])
            \o JsonDumpsMembers(d, k + 1)

JsonDumps(d) == <<123>> \o JsonDumpsMembers(d, 1) \o <<125>>

\* d[key] = value
DictSet(d, key, value) ==
    LET at == {k \in 1..Len(d.keys) : d.keys[k] = key}
    IN  IF at = {} THEN PyDict(Append(d.keys, key), Append(d.vals, value))
        ELSE PyDict(d.keys, [k \in 1..Len(d.vals) |-> IF k \in at THEN value ELSE d.vals[k]])

\* What the JSON reader gives: a value and the position after it, or failure
\* (json.JSONDecodeError).
JsonFail == [ok |-> FALSE, val |-> PyNone, next |-> 0]
JsonOk(val, next) == [ok |-> TRUE, val |-> val, next |-> next]

RECURSIVE JsonSkipSpace(_, _)
JsonSkipSpace(s, i) ==
    IF i <= Len(s) /\ s[i] \in {32, 9, 10, 13} THEN JsonSkipSpace(s, i + 1) ELSE i

HexValue(c) ==
    IF c >= 48 /\ c <= 57 THEN c - 48
    ELSE IF c >= 97 /\ c <= 102 THEN c - 87
    ELSE IF c >= 65 /\ c <= 70 THEN c - 55
    ELSE -1

\* The character a two-character escape stands for, -1 when there is none.
JsonUnescape(c) ==
    CASE c \in {34, 92, 47} -> c
      [] c = 98 -> 8
      [] c = 102 -> 12
      [] c = 110 -> 10
      [] c = 114 -> 13
      [] c = 116 -> 9
      [] OTHER -> -1

\* A string from position i, just after its opening quote.  (Surrogate pairs
\* are not combined: the characters of the model are below U+D800.)
RECURSIVE JsonScanString(_, _, _)
JsonScanString(s, i, acc) ==
    IF i > Len(s) THEN JsonFail
    ELSE IF s[i] = 34 THEN JsonOk(PyStr(acc), i + 1)
    ELSE IF s[i] < 32 THEN JsonFail
    ELSE IF s[i] # 92 THEN JsonScanString(s, i + 1, Append(acc, s[i]))
    ELSE IF i + 1 > Len(s) THEN JsonFail
    ELSE IF s[i + 1] = 117
         THEN IF i + 5 > Len(s) THEN JsonFail
              ELSE IF \E k \in 2..5 : HexValue(s[i + k]) < 0 THEN JsonFail
              ELSE JsonScanString(s, i + 6,
                      Append(acc, 4096 * HexValue(s[i + 2]) + 256 * HexValue(s[i + 3])
                                    + 16 * HexValue(s[i + 4]) + HexValue(s[i + 5])))
    ELSE IF JsonUnescape(s[i + 1]) < 0 THEN JsonFail
    ELSE JsonScanString(s, i + 2, Append(acc, JsonUnescape(s[i + 1])))

JsonLiteral(s, i, literal, value) ==
    IF i + Len(literal) - 1 <= Len(s) /\ SubSeq(s, i, i + Len(literal) - 1) = literal
    THEN JsonOk(value, i + Len(literal)) ELSE JsonFail

\* The position after the digits that start at i.
RECURSIVE JsonDigitsEnd(_, _)
JsonDigitsEnd(s, i) ==
    IF i <= Len(s) /\ IsDigit(s[i]) THEN JsonDigitsEnd(s, i + 1) ELSE i

\* An integer: -?(0|[1-9][0-9]*).  (Fractions and exponents are not among the
\* files of the model.)
JsonNumber(s, i) ==
    LET d == IF s[i] = 45 THEN i + 1 ELSE i
        e == IF d <= Len(s) /\ s[d] = 48 THEN d + 1 ELSE JsonDigitsEnd(s, d)
        n == DigitsValue(SubSeq(s, d, e - 1), e - d)
    IN  IF e = d THEN JsonFail
        ELSE JsonOk(PyInt(IF s[i] = 45 THEN 0 - n ELSE n), e)

\* A string, null, true, false or an integer at position i.  (Arrays and
\* nested objects are not among the files of the model.)
JsonScalar(s, i) ==
    IF i > Len(s) THEN JsonFail
    ELSE IF s[i] = 34 THEN JsonScanString(s, i + 1, <<>>)
    ELSE IF s[i] = 110 THEN JsonLiteral(s, i, s_null, PyNone)
    ELSE IF s[i] = 116 THEN JsonLiteral(s, i, s_true, PyBool(TRUE))
    ELSE IF s[i] = 102 THEN JsonLiteral(s, i, s_false, PyBool(FALSE))
    ELSE IF s[i] = 45 \/ IsDigit(s[i]) THEN JsonNumber(s, i)
    ELSE JsonFail

\* The members of an object from position i on, where a key is expected, up
\* to the closing brace; a key that comes again replaces the earlier value.
RECURSIVE JsonMembers(_, _, _)
JsonMembers(s, i, d) ==
    LET k == JsonSkipSpace(s, i)
        key == JsonScanString(s, k + 1, <<>>)
        colon == JsonSkipSpace(s, key.next)
        v == JsonScalar(s, JsonSkipSpace(s, colon + 1))
        e == JsonSkipSpace(s, v.next)
    IN  IF k > Len(s) THEN JsonFail
        ELSE IF s[k] # 34 THEN JsonFail
        ELSE IF ~key.ok THEN JsonFail
        ELSE IF colon > Len(s) THEN JsonFail
        ELSE IF s[colon] # 58 THEN JsonFail
        ELSE IF ~v.ok THEN JsonFail
        ELSE IF e > Len(s) THEN JsonFail
        ELSE IF s[e] = 125 THEN JsonOk(DictSet(d, key.val.s, v.val), e + 1)
        ELSE IF s[e] = 44 THEN JsonMembers(s, e + 1, DictSet(d, key.val.s, v.val))
        ELSE JsonFail

\* json.load of a text: one value, blanks around it, and nothing else.
JsonLoad(s) ==
    LET i == JsonSkipSpace(s, 1)
        v == IF i > Len(s) THEN JsonFail
             ELSE IF s[i] # 123 THEN JsonScalar(s, i)
             ELSE IF JsonSkipSpace(s, i + 1) <= Len(s) /\ s[JsonSkipSpace(s, i + 1)] = 125
                  THEN JsonOk(PyDict(<<>>, <<>>), JsonSkipSpace(s, i + 1) + 1)
             ELSE JsonMembers(s, i + 1, PyDict(<<>>, <<>>))
    IN  IF ~v.ok THEN JsonFail
        ELSE IF JsonSkipSpace(s, v.next) # Len(s) + 1 THEN JsonFail
        ELSE v

(***************************************************************************)
(* The default camera name and its settings file                           *)
(***************************************************************************)
\* The settings file: absent, or present with a text.  (The file is written
\* and read as UTF-8; the text json.dumps writes is ASCII.)
FileWith(text) == [exists |-> TRUE, text |-> text]

\* A text that is not JSON: {"DefaultWebcamName"
FileMalformed == FileWith(<<123, 34>> \o s_DefaultWebcamName \o <<34>>)

\* A JSON object that holds the key DefaultWebcamName, or no key at all.
FileObject(hasKey, value) ==
    FileWith(JsonDumps(IF hasKey THEN PyDict(<<s_DefaultWebcamName>>, <<value>>)
                       ELSE PyDict(<<>>, <<>>)))

\* The classes of the exceptions raised under "except Exception" in this file;
\* all of them derive from Exception.
ExceptionClasses ==
    {"OSError", "JSONDecodeError", "KeyError", "TypeError"}

\* except Exception as e
ExceptException(exc) == exc \in ExceptionClasses

\* Line 636: len(name) == 0
NameIsEmpty_Never(name) == FALSE

NameIsEmpty(name) == Len(name.s) = 0

\* What the try block of _LoadDefaultCameraName leaves: the value of
\* DefaultCameraName and the exception it ends with ("" when none).
Left(name, exc) == [name |-> name, exc |-> exc]

\* d[key] of a dict that has the key.
DictGet(d, key) == d.vals[CHOOSE k \in 1..Len(d.keys) : d.keys[k] = key]

\* Lines 636-639: the name read is None or empty, or is kept.
LoadName(name) ==
    IF name = PyNone THEN Left(PyNone, "")
    ELSE IF ~IsSized(name) THEN Left(PyNone, "TypeError")
    ELSE IF NameIsEmpty(name) THEN Left(PyNone, "")
    ELSE Left(name, "")

\* Lines 633-635: json.load(f) and data["DefaultWebcamName"].
LoadData(data) ==
    IF ~data.ok THEN Left(PyNone, "JSONDecodeError")
    ELSE IF data.val.t # "dict" THEN Left(PyNone, "TypeError")
    ELSE IF \A k \in 1..Len(data.val.keys) : data.val.keys[k] # s_DefaultWebcamName
         THEN Left(PyNone, "KeyError")
    ELSE LoadName(DictGet(data.val, s_DefaultWebcamName))

\* The try block of _LoadDefaultCameraName, lines 624-639.  The file is read
\* ("ok"), or open() or the decoding of its bytes fails ("error").
LoadTry(file, io) ==
    IF ~file.exists THEN Left(PyNone, "")
    ELSE IF io = "error" THEN Left(PyNone, "OSError")
    ELSE LoadData(JsonLoad(file.text))

\* Line 640: what the caller gets: None, or Raised for an exception that the
\* except clause does not catch.
LoadReturn(r) ==
    [DefaultCameraName |-> r.name,
     ret |-> IF r.exc = "" \/ ExceptException(r.exc) THEN PyNone ELSE Raised]

\* WebcamHelper._LoadDefaultCameraName: the value DefaultCameraName is left
\* with, and what the caller gets.
LoadDefaultCameraName(file, io) == LoadReturn(LoadTry(file, io))

\* Lines 612-613: the in-memory name after a write that failed.
DefaultAfterFailedWrite_RolledBack(previous, name) == previous

DefaultAfterFailedWrite(previous, name) == name

\* WebcamHelper.SetDefaultCameraName(name): the name is lower-cased and kept in
\* memory, then written to the settings file.  The write succeeds ("ok"), or
\* open() fails and the file is left as it was ("open"), or the write fails
\* after open(mode="w") has truncated the file ("write").
SetDefaultCameraName(name, io) ==
    LET lowered == PyStr(Lower(name))
        settings == PyDict(<<s_DefaultWebcamName>>, <<lowered>>)
    IN  /\ DefaultCameraName' =
              IF io = "ok" THEN lowered
              ELSE DefaultAfterFailedWrite(DefaultCameraName, lowered)
        /\ settingsFile' =
              CASE io = "ok" -> FileWith(JsonDumps(settings))
                [] io = "open" -> settingsFile
                [] io = "write" -> FileWith(<<>>)
        /\ call' = [fn |-> "SetDefaultCameraName", name |-> PyStr(name), io |-> io,
                    before |-> DefaultCameraName]
        /\ callRet' = IF io = "ok" \/ ExceptException("OSError") THEN PyNone ELSE Raised
        /\ UNCHANGED <<platformVars, requestVars>>

(***************************************************************************)
(* The camera registry resolver                                            *)
(***************************************************************************)
CfgList(items) == [st |-> "list", items |-> items]
CfgRaise == [st |-> "raise", items |-> <<>>]

\* WebcamHelper.ListWebcams: the platform's list; None when the platform gives
\* None or an empty list, or raises.
ListWebcams(cfg) ==
    IF cfg.st # "list" THEN PyNone
    ELSE IF Len(cfg.items) = 0 THEN PyNone
    ELSE [t |-> "list", items |-> cfg.items]

\* i.Name.lower() == cameraNameLower
NameMatches_CaseSensitive(itemName, cameraNameLower) == itemName = cameraNameLower

NameMatches(itemName, cameraNameLower) == Lower(itemName) = cameraNameLower

\* What _GetWebcamSettingObj returns when the scan finds no camera of that name.
NotFoundFallback_None(a) == PyNone

NotFoundFallback(a) == a[1]

\* The for loop of _GetWebcamSettingObj from index k on: the first item whose
\* name matches; an item whose Name has no lower() raises, which the function
\* catches and turns into None.
RECURSIVE ScanByName(_, _, _)
ScanByName(a, cameraNameLower, k) ==
    IF k > Len(a) THEN NotFoundFallback(a)
    ELSE IF a[k].Name.t # "str" THEN PyNone
    ELSE IF NameMatches(a[k].Name.s, cameraNameLower) THEN a[k]
    ELSE ScanByName(a, cameraNameLower, k + 1)

\* The name _GetWebcamSettingObj looks for: the default when none was passed.
TargetName(cameraName, default) ==
    IF cameraName = PyNone THEN default
    ELSE IF Len(cameraName.s) = 0 THEN default
    ELSE cameraName

\* WebcamHelper._GetWebcamSettingObj(cameraName), with the platform's answer
\* and the default name it reads.
GetWebcamSettingObj(cfg, default, cameraName) ==
    LET a == ListWebcams(cfg)
    IN  IF a = PyNone THEN PyNone
        ELSE IF cameraName # PyNone /\ ~IsSized(cameraName) THEN PyNone
        ELSE LET target == TargetName(cameraName, default)
             IN  IF target = PyNone THEN a.items[1]
                 ELSE IF target.t # "str" THEN PyNone
                 ELSE ScanByName(a.items, Lower(target.s), 1)

(***************************************************************************)
(* The resolver on its own: camera lists of a multi-camera platform, the   *)
(* default name as loaded or set, and every kind of requested name.        *)
(***************************************************************************)
s_none == <<110, 111, 110, 101>>        \* "none"
s_snap2 == <<47, 115, 50>>              \* "/s2"
s_stream2 == <<47, 109, 50>>            \* "/m2"

\* The cameras a multi-camera platform reports (each passes Validate).  Two of
\* them have names equal up to case.
CameraPool ==
    { WebcamSettingItem(PyStr(s_Cam1), PyStr(s_snap), PyStr(s_stream),
                        PyBool(FALSE), PyBool(FALSE), PyInt(0)),
      WebcamSettingItem(PyStr(s_CAM2), PyStr(s_snap2), PyStr(s_stream2),
                        PyBool(TRUE), PyBool(FALSE), PyInt(90)),
      WebcamSettingItem(PyStr(s_cam1), PyNone, PyStr(s_stream2),
                        PyBool(FALSE), PyBool(TRUE), PyInt(180)),
      WebcamSettingItem(PyStr(s_Back), PyStr(s_snap2), PyNone,
                        PyBool(TRUE), PyBool(TRUE), PyInt(270)) }

\* The longest camera list.
MaxCameras == 2

RECURSIVE ListsOf(_, _)
ListsOf(pool, n) ==
    IF n = 0 THEN {<<>>}
    ELSE LET shorter == ListsOf(pool, n - 1)
         IN  shorter \cup {Append(l, c) : l \in {x \in shorter : Len(x) = n - 1},
                                          c \in pool}

NoRepeat(l) == \A i, j \in 1..Len(l) : i # j => l[i] # l[j]

ResolveConfigs ==
    {CfgNone, CfgRaise} \cup {CfgList(l) : l \in {x \in ListsOf(CameraPool, MaxCameras) : NoRepeat(x)}}

\* A request's camera name: absent, empty, or a name in some case.
RequestNames == {PyNone, PyStr(<<>>), PyStr(s_cam1), PyStr(s_CAM2), PyStr(s_none)}

\* The names a caller sets as default.
DefaultNames == {s_Cam1, s_cam2, s_Back, <<>>}

ResolveFiles ==
    {FileAbsent, FileMalformed, FileObject(FALSE, PyNone),
     FileObject(TRUE, PyStr(s_CAM2)), FileObject(TRUE, PyStr(<<>>))}

Idle == [fn |-> "idle"]

InitResolve ==
    /\ webcamConfig \in ResolveConfigs
    /\ octoPrintSettings = PyNone
    /\ RequestIdle
    /\ settingsFile \in ResolveFiles
    /\ DefaultCameraName = LoadDefaultCameraName(settingsFile, "ok").DefaultCameraName
    /\ call = Idle
    /\ callRet = NotReturned

\* One call of _GetWebcamSettingObj(cameraName).
CallGetWebcamSettingObj ==
    \E cameraName \in RequestNames :
        /\ call' = [fn |-> "_GetWebcamSettingObj", cameraName |-> cameraName,
                    cfg |-> webcamConfig, default |-> DefaultCameraName]
        /\ callRet' = GetWebcamSettingObj(webcamConfig, DefaultCameraName, cameraName)
        /\ UNCHANGED <<platformVars, storeVars, requestVars>>

CallSetDefaultCameraName ==
    \E name \in DefaultNames, io \in {"ok", "open", "write"} :
        SetDefaultCameraName(name, io)

\* The user reconfigures the cameras of the platform.
PlatformChange ==
    /\ webcamConfig' \in ResolveConfigs \ {webcamConfig}
    /\ call' = Idle
    /\ callRet' = NotReturned
    /\ UNCHANGED <<octoPrintSettings, storeVars, requestVars>>

NextResolve ==
    \/ CallGetWebcamSettingObj
    \/ CallSetDefaultCameraName
    \/ PlatformChange

SpecResolve == InitResolve /\ [][NextResolve]_vars

\* The claims' own reading of "equal ignoring case", and of the list a call saw.
EqIgnoreCase(x, y) ==
    /\ Len(x) = Len(y)
    /\ \A i \in 1..Len(x) : LowerChar(x[i]) = LowerChar(y[i])

Resolved == call.fn = "_GetWebcamSettingObj" /\ callRet # NotReturned
SeenList == call.cfg.items
HasList == call.cfg.st = "list" /\ Len(call.cfg.items) > 0
IsAbsentName(n) == n = PyNone \/ Len(n.s) = 0
MatchIndexes(n) == {k \in 1..Len(SeenList) : EqIgnoreCase(SeenList[k].Name.s, n.s)}
FirstIndex(S) == CHOOSE k \in S : \A j \in S : k <= j

\* C7: with an explicit name that matches no camera of a non-empty list,
\* _GetWebcamSettingObj returns the item at index 0, never None.
C7_UnknownNameFallsBackToFirst ==
    (/\ Resolved
     /\ HasList
     /\ ~IsAbsentName(call.cameraName)
     /\ MatchIndexes(call.cameraName) = {})
        => callRet = SeenList[1]

\* C7 witness: an unknown explicit name was resolved against a list of two
\* cameras while a default naming the second camera was set.
C7_Witness ==
    /\ Resolved
    /\ HasList
    /\ Len(SeenList) = 2
    /\ call.cameraName = PyStr(s_none)
    /\ call.default = PyStr(s_cam2)
    /\ SeenList[2].Name = PyStr(s_CAM2)
    /\ callRet = SeenList[1]

\* C8: an absent (None or empty) name is replaced by the default name; a name
\* (explicit or default) equal to some camera's Name ignoring case selects the
\* first such camera in list order; no name and no default selects index 0.
C8_ResolveByNameOrDefault ==
    (Resolved /\ HasList) =>
        LET n == IF IsAbsentName(call.cameraName) THEN call.default ELSE call.cameraName
        IN  IF n = PyNone THEN callRet = SeenList[1]
            ELSE MatchIndexes(n) # {} => callRet = SeenList[FirstIndex(MatchIndexes(n))]

\* C8 witness: the empty name was resolved through the default "cam2" to the
\* second camera of the list, whose Name is "CAM2".
C8_Witness ==
    /\ Resolved
    /\ HasList
    /\ call.cameraName = PyStr(<<>>)
    /\ call.default = PyStr(s_cam2)
    /\ Len(SeenList) = 2
    /\ SeenList[2].Name = PyStr(s_CAM2)
    /\ callRet = SeenList[2]

\* C8 second witness state: two cameras match up to case and the first is taken.
C8_WitnessFirstOfTwo ==
    /\ Resolved
    /\ HasList
    /\ Len(SeenList) = 2
    /\ call.cameraName = PyStr(s_cam1)
    /\ Cardinality(MatchIndexes(call.cameraName)) = 2
    /\ callRet = SeenList[1]

(***************************************************************************)
(* The OctoPrint platform: OctoPrintWebcamHelper.GetWebcamConfig           *)
(***************************************************************************)
s_defaultSnapshot ==    \* "/webcam/?action=snapshot"
    <<47, 119, 101, 98, 99, 97, 109, 47, 63, 97, 99, 116, 105, 111, 110, 61,
      115, 110, 97, 112, 115, 104, 111, 116>>
s_defaultStream ==      \* "/webcam/?action=stream"
    <<47, 119, 101, 98, 99, 97, 109, 47, 63, 97, 99, 116, 105, 111, 110, 61,
      115, 116, 114, 101, 97, 109>>

\* The OctoPrint settings GetWebcamConfig reads with global_get: the webcam
\* section, and the classicwebcam plugin's section (c...).  A key that is not
\* set reads as None.
OctoSettings(snapshot, stream, flipH, flipV, rotate90, cFlipH, cFlipV, cRotate90) ==
    [t |-> "settings", snapshot |-> snapshot, stream |-> stream,
     flipH |-> flipH, flipV |-> flipV, rotate90 |-> rotate90,
     cFlipH |-> cFlipH, cFlipV |-> cFlipV, cRotate90 |-> cRotate90]

\* x if x is not None, else y.
OrElse(x, y) == IF x = PyNone THEN y ELSE x

\* OctoPrintWebcamHelper.GetWebcamConfig.  The item is built by the positional
\* call WebcamSettingItem(snapshotUrl, streamUrl, flipH, flipV, rotation).
GetWebcamConfig(settings) ==
    IF settings = PyNone THEN CfgNone
    ELSE
    LET flipH0 == OrElse(settings.flipH, settings.cFlipH)
        flipV0 == OrElse(settings.flipV, settings.cFlipV)
        rotate0 == OrElse(settings.rotate90, settings.cRotate90)
        snapshotUrl ==
            IF NoneOrEmpty(settings.snapshot) = "yes"
            THEN PyStr(s_defaultSnapshot) ELSE settings.snapshot
        \* "if streamUrl is None or len(snapshotUrl) == 0": the length tested
        \* is the snapshot URL's
        streamUrl ==
            IF settings.stream = PyNone \/ Len(snapshotUrl.s) = 0
            THEN PyStr(s_defaultStream) ELSE settings.stream
        flipH == OrElse(flipH0, PyBool(FALSE))
        flipV == OrElse(flipV0, PyBool(FALSE))
        rotate90 == OrElse(rotate0, PyBool(FALSE))
        rotation == IF PyTruthy(rotate90) THEN PyInt(270) ELSE PyInt(0)
    \* five positional arguments; the sixth, rotationInt, takes its default 0
    IN  CfgList(<< WebcamSettingItem(snapshotUrl, streamUrl, flipH, flipV, rotation, PyInt(0)) >>)

(***************************************************************************)
(* The core on the OctoPrint platform                                      *)
(***************************************************************************)
OctoUrls(set) == {PyNone, PyStr(<<>>), PyStr(set)}

OctoSettingsInputs ==
    {OctoSettings(sn, st, fh, fv, r, ch, PyNone, cr) :
        sn \in OctoUrls(s_snap), st \in OctoUrls(s_stream),
        fh \in {PyNone, PyBool(FALSE), PyBool(TRUE)}, fv \in {PyNone, PyBool(TRUE)},
        r \in {PyNone, PyBool(FALSE), PyBool(TRUE)},
        ch \in {PyNone, PyBool(TRUE)}, cr \in {PyNone, PyBool(TRUE)}}

InitOcto ==
    /\ octoPrintSettings \in {PyNone} \cup OctoSettingsInputs
    /\ webcamConfig = GetWebcamConfig(octoPrintSettings)
    /\ settingsFile = FileAbsent
    /\ DefaultCameraName = LoadDefaultCameraName(settingsFile, "ok").DefaultCameraName
    /\ call = Idle
    /\ callRet = NotReturned
    /\ RequestIdle

\* One call of WebcamHelper.ListWebcams().
CallListWebcams ==
    /\ call' = [fn |-> "ListWebcams", cfg |-> webcamConfig]
    /\ callRet' = ListWebcams(GetWebcamConfig(octoPrintSettings))
    /\ UNCHANGED <<platformVars, storeVars, requestVars>>

\* The user edits the webcam URLs in OctoPrint's settings.
OctoSettingsChange ==
    /\ octoPrintSettings # PyNone
    /\ \E sn \in OctoUrls(s_snap), st \in OctoUrls(s_stream) :
          /\ <<sn, st>> # <<octoPrintSettings.snapshot, octoPrintSettings.stream>>
          /\ octoPrintSettings' = [octoPrintSettings EXCEPT !.snapshot = sn, !.stream = st]
    /\ webcamConfig' = GetWebcamConfig(octoPrintSettings')
    /\ call' = Idle
    /\ callRet' = NotReturned
    /\ UNCHANGED <<storeVars, requestVars>>

NextOcto ==
    \/ CallListWebcams
    \/ CallGetWebcamSettingObj
    \/ OctoSettingsChange

SpecOcto == InitOcto /\ [][NextOcto]_vars

Valid(item) == Validate(item).ret = PyBool(TRUE)

\* C9: every item of the list ListWebcams returns, and every item
\* _GetWebcamSettingObj selects, satisfies Validate().
C9_ActiveListIsValidated ==
    /\ (call.fn = "ListWebcams" /\ callRet # NotReturned /\ callRet # PyNone)
          => \A k \in 1..Len(callRet.items) : Valid(callRet.items[k])
    /\ (Resolved /\ callRet # PyNone) => Valid(callRet)

(***************************************************************************)
(* The HTTP executor's objects                                             *)
(***************************************************************************)
\* A response object: its status, its header map (in order), the body bytes
\* not read yet, whether it was closed, and the sizes asked of raw.read().
Response(status, headers, body) ==
    [t |-> "response", status_code |-> status, headers |-> headers,
     raw |-> body, closed |-> FALSE, reads |-> <<>>]

Header(name, value) == [name |-> name, value |-> value]

\* A reference to the response object that the call at one site returned (the
\* object itself, which the code changes in place, is kept apart).
ResponseAt(site) == [t |-> "ref", site |-> site]

\* OctoHttpRequest.Result(response, url, didFallback, fullBodyBuffer), with
\* response a reference or PyNone.
OctoHttpResult(response, url, didFallback, fullBodyBuffer) ==
    [t |-> "result", Result |-> response, Url |-> url, DidFallback |-> didFallback,
     FullBodyBuffer |-> fullBodyBuffer]

\* response.close()
Close(response) == [response EXCEPT !.closed = TRUE]

\* response.raw.read(amt).  The connection delivers what was asked (or what is
\* left of the body), or one byte less, or nothing (None), or the read times
\* out, or it fails in another way.
ReadModes == {"full", "short", "none", "timeout", "error"}

RawRead(response, amt, mode) ==
    LET avail == IF amt < Len(response.raw) THEN amt ELSE Len(response.raw)
        got == IF mode = "short" /\ avail > 0 THEN avail - 1 ELSE avail
        asked == [response EXCEPT !.reads = Append(@, amt)]
    IN  CASE mode \in {"full", "short"} ->
                [t |-> "bytes", data |-> SubSeq(response.raw, 1, got),
                 response |-> [asked EXCEPT !.raw = PySliceFrom(response.raw, got)]]
          [] mode = "none" -> [t |-> "none", data |-> <<>>, response |-> asked]
          [] OTHER -> [t |-> mode, data |-> <<>>, response |-> asked]

(***************************************************************************)
(* The MJPEG frame extractor: WebcamHelper._GetSnapshotFromStream          *)
(***************************************************************************)
\* The size of the first read, which must hold the first part's headers.
HeaderReadSize == 300

\* Lines 239-245: the value of the response's content-type header starts with
\* "multipart/" (both compared in lower case).
IsMultipartStream(headers) ==
    LET at == {k \in 1..Len(headers) : Lower(headers[k].name) = s_contentType}
    IN  /\ at # {}
        /\ StartsWith(Lower(headers[CHOOSE k \in at : \A j \in at : k <= j].value),
                      s_multipart)

\* Lines 280-292, from line k of the split text on: the frame size and the
\* content type the loop ends with; int() of a malformed length raises.
RECURSIVE ScanPartHeaders(_, _, _)
ScanPartHeaders(headers, k, acc) ==
    IF k > Len(headers) THEN acc
    ELSE
    LET header == headers[k]
        headerLower == Lower(header)
        p == Split(header, <<58>>)
        withType ==
            IF StartsWith(headerLower, s_contentType) /\ Len(p) = 2
            THEN [acc EXCEPT !.contentType = PyStr(Strip(p[2]))]
            ELSE acc
        isLength == StartsWith(headerLower, s_contentLength) /\ Len(p) = 2
        parsed == IntParse(Strip(p[2]))
    IN  IF isLength /\ ~parsed.ok THEN [withType EXCEPT !.raised = TRUE]
        ELSE ScanPartHeaders(headers, k + 1,
                IF isLength THEN [withType EXCEPT !.frameSizeInt = parsed.v] ELSE withType)

\* Which text the part headers are looked for in: the whole decoded read.
PartHeaderLines(headerStr, headerStrSize) == Split(headerStr, s_CRLF)

\* How an extraction ends: no result, and the response as it is left.
ExtractFail(exit, response) == [ret |-> PyNone, response |-> response, exit |-> exit]

\* Line 304: how much of the frame the first read has not delivered yet.
ToRead_WholeChunk(totalDesiredBufferSize, dataBuffer) == HeaderReadSize

ToRead(totalDesiredBufferSize, dataBuffer) == totalDesiredBufferSize - Len(dataBuffer)

\* Lines 302-344: the rest of the frame is read, the response closed, and the
\* image cut out of the buffer.
ExtractBody(url, response, dataBuffer0, headerStrSize, frameSizeInt, contentType, m2) ==
    LET totalDesiredBufferSize == frameSizeInt + headerStrSize
        toRead == ToRead(totalDesiredBufferSize, dataBuffer0)
        rd == RawRead(response, toRead, m2)
    IN  IF toRead > 0 /\ rd.t \in {"timeout", "error"} THEN ExtractFail(rd.t, Close(rd.response))
        ELSE IF toRead > 0 /\ rd.t = "none" THEN ExtractFail("read-none", Close(rd.response))
        ELSE
        LET response1 == Close(IF toRead > 0 THEN rd.response ELSE response)
            dataBuffer1 == IF toRead > 0 THEN dataBuffer0 \o rd.data ELSE dataBuffer0
            dataBuffer ==
                IF Len(dataBuffer1) > totalDesiredBufferSize
                THEN PySliceTo(dataBuffer1, totalDesiredBufferSize) ELSE dataBuffer1
            imageBuffer == PySliceFrom(dataBuffer, headerStrSize)
            final == [response1 EXCEPT
                        !.status_code = 200,
                        !.headers = << Header(s_contentType, contentType.s),
                                       Header(s_contentLength, IntToStr(Len(imageBuffer))) >>]
        IN  IF Len(dataBuffer) # totalDesiredBufferSize THEN ExtractFail("size", response1)
            ELSE [ret |-> OctoHttpResult(ResponseAt("fallback"), url, TRUE, PyBytes(imageBuffer)),
                  response |-> final, exit |-> "ok"]

\* Lines 235-299: inside "with response": the content type check, the first
\* read and the part headers.
ExtractHeaders(url, response, m1, m2) ==
    IF ~IsMultipartStream(response.headers) THEN ExtractFail("content-type", Close(response))
    ELSE
    LET rd == RawRead(response, HeaderReadSize, m1)
    IN  IF rd.t \in {"timeout", "error"} THEN ExtractFail(rd.t, Close(rd.response))
        ELSE IF rd.t = "none" THEN ExtractFail("no-data", Close(rd.response))
        ELSE
        LET dataBuffer == rd.data
            headerStr == Decode(dataBuffer)
            found == Find(headerStr, s_CRLFCRLF)
            headerStrSize == found + 4
            fields == ScanPartHeaders(PartHeaderLines(headerStr, headerStrSize), 1,
                        [frameSizeInt |-> 0, contentType |-> PyNone, raised |-> FALSE])
        IN  IF found = -1 THEN ExtractFail("no-terminator", Close(rd.response))
            ELSE IF fields.raised THEN ExtractFail("error", Close(rd.response))
            ELSE IF fields.frameSizeInt = 0 \/ fields.contentType = PyNone
                 THEN ExtractFail("fields", Close(rd.response))
            ELSE ExtractBody(url, rd.response, dataBuffer, headerStrSize,
                             fields.frameSizeInt, fields.contentType, m2)

\* Is the response closed when the extractor returns before "with response"?
LeaveBadStatus(response) == response

\* WebcamHelper._GetSnapshotFromStream(url), given what MakeHttpCall returns
\* (None, a result without a response, or a response) and how the two reads go.
GetSnapshotFromStream(url, made, m1, m2) ==
    IF made = PyNone THEN ExtractFail("no-result", PyNone)
    ELSE IF made.status_code # 200 THEN ExtractFail("status", LeaveBadStatus(made))
    ELSE ExtractHeaders(url, made, m1, m2)

(***************************************************************************)
(* The frame extractor on its own: multipart streams built from a boundary *)
(* line, the part's header fields, the frame's bytes and what follows the  *)
(* frame in the stream.                                                    *)
(***************************************************************************)
s_boundaryLine == <<45, 45, 66, 13, 10>>                \* "--B\r\n"
s_boundaryLine2 == <<13, 10, 45, 45, 66, 13, 10>>       \* "\r\n--B\r\n"
s_ContentTypeField ==   \* "Content-Type: "
    <<67, 111, 110, 116, 101, 110, 116, 45, 84, 121, 112, 101, 58, 32>>
s_ContentLengthField == \* "Content-Length: "
    <<67, 111, 110, 116, 101, 110, 116, 45, 76, 101, 110, 103, 116, 104, 58, 32>>
s_imageJpeg == <<105, 109, 97, 103, 101, 47, 106, 112, 101, 103>>   \* "image/jpeg"
s_imagePng == <<105, 109, 97, 103, 101, 47, 112, 110, 103>>         \* "image/png"
s_textHtml == <<116, 101, 120, 116, 47, 104, 116, 109, 108>>        \* "text/html"
s_ContentTypeName == <<67, 111, 110, 116, 101, 110, 116, 45, 84, 121, 112, 101>>  \* "Content-Type"
s_multipartMixed ==     \* "multipart/x-mixed-replace;boundary=B"
    <<109, 117, 108, 116, 105, 112, 97, 114, 116, 47, 120, 45, 109, 105, 120, 101,
      100, 45, 114, 101, 112, 108, 97, 99, 101, 59, 98, 111, 117, 110, 100, 97,
      114, 121, 61, 66>>
s_4x == <<52, 120>>     \* "4x"

\* A frame that, with its part headers, does not fit the first read.
LongFrameSize == 280

\* The bytes of a JPEG frame of n bytes: SOI, an APP0 segment whose identifier
\* is JFIF\0 or zeroed, filler, EOI.
JpegFrame(n, zeroed) ==
    LET head == <<255, 216, 255, 224, 0, 16>>
                  \o (IF zeroed THEN <<0, 0, 0, 0, 0>> ELSE <<74, 70, 73, 70, 0>>)
    IN  [i \in 1..n |->
            IF n >= 4 /\ i = n - 1 THEN 255
            ELSE IF n >= 4 /\ i = n THEN 217
            ELSE IF i <= Len(head) THEN head[i]
            ELSE 17]

\* One part's header block: the boundary line, the fields, the blank line.
PartHeader(prefix, type, declared, terminated) ==
    prefix
      \o (IF type = PyNone THEN <<>> ELSE s_ContentTypeField \o type.s \o s_CRLF)
      \o (CASE declared.t = "none" -> <<>>
            [] declared.t = "int" -> s_ContentLengthField \o IntToStr(declared.i) \o s_CRLF
            [] declared.t = "str" -> s_ContentLengthField \o declared.s \o s_CRLF)
      \o (IF terminated THEN s_CRLF ELSE <<>>)

\* The next part of the stream: another frame, of another type and size.
NextPartSize == 6
NextPart ==
    PartHeader(s_boundaryLine2, PyStr(s_imagePng), PyInt(NextPartSize), TRUE)
        \o JpegFrame(NextPartSize, FALSE)

StreamParts ==
    {[prefix |-> p, type |-> ty, declared |-> d, terminated |-> tm,
      frame |-> JpegFrame(n, FALSE), rest |-> r] :
        p \in {s_boundaryLine, s_boundaryLine2},
        ty \in {PyNone, PyStr(s_imageJpeg), PyStr(s_imagePng)},
        d \in {PyNone, PyInt(0), PyInt(4), PyInt(LongFrameSize), PyInt(-3), PyStr(s_4x)},
        tm \in BOOLEAN,
        n \in {3, 4, LongFrameSize},
        r \in {<<>>, NextPart}}

StreamOf(parts) ==
    PartHeader(parts.prefix, parts.type, parts.declared, parts.terminated)
        \o parts.frame \o parts.rest

MultipartHeaders == <<Header(s_ContentTypeName, s_multipartMixed)>>

\* What the GET on the stream URL gives: nothing, or a response.
ExtractResponses ==
    {[made |-> Response(200, MultipartHeaders, StreamOf(parts)), parts |-> parts] :
        parts \in StreamParts}
    \cup
    {[made |-> m, parts |-> PyNone] :
        m \in {PyNone,
               Response(404, <<Header(s_ContentTypeName, s_textHtml)>>, s_textHtml),
               Response(200, <<Header(s_ContentTypeName, s_imageJpeg)>>, JpegFrame(12, TRUE)),
               Response(200, <<>>, <<>>)}}

\* How the two reads go: at most one of them goes wrong.
ReadPairs ==
    {<<"full", m>> : m \in ReadModes} \cup {<<m, "full">> : m \in ReadModes}

InitExtract ==
    /\ webcamConfig = CfgNone
    /\ octoPrintSettings = PyNone
    /\ DefaultCameraName = PyNone
    /\ settingsFile = FileAbsent
    /\ RequestIdle
    /\ call \in {[fn |-> "pending", url |-> PyStr(s_stream), made |-> r.made, parts |-> r.parts] :
                    r \in ExtractResponses}
    /\ callRet = NotReturned

\* One call of _GetSnapshotFromStream(url).
CallGetSnapshotFromStream ==
    /\ call.fn = "pending"
    /\ \E m \in ReadPairs :
          /\ call' = [call EXCEPT !.fn = "_GetSnapshotFromStream"] @@ [m1 |-> m[1], m2 |-> m[2]]
          /\ callRet' = GetSnapshotFromStream(call.url, call.made, m[1], m[2])
    /\ UNCHANGED <<platformVars, storeVars, requestVars>>

NextExtract == CallGetSnapshotFromStream

SpecExtract == InitExtract /\ [][NextExtract]_vars

Extracted == call.fn = "_GetSnapshotFromStream" /\ callRet # NotReturned

\* The case of C4: a 200 multipart response whose first header block ends in
\* the first read and declares a type and a length N > 0, with at least N bytes
\* after the block, all of them delivered.
FirstFrameWellFormed ==
    /\ Extracted
    /\ call.parts # PyNone
    /\ call.parts.type # PyNone
    /\ call.parts.declared.t = "int"
    /\ call.parts.declared.i > 0
    /\ call.parts.terminated
    /\ Len(PartHeader(call.parts.prefix, call.parts.type, call.parts.declared, TRUE))
          <= HeaderReadSize
    /\ Len(call.parts.frame \o call.parts.rest) >= call.parts.declared.i
    /\ call.m1 = "full"
    /\ call.m2 = "full"

\* C4: for every such response the extraction succeeds with status 200, the
\* body is exactly the N bytes after the first header block, and the headers
\* are exactly content-type: T and content-length: N -- whatever follows the
\* frame in the stream.
C4_ExtractsFirstFrame ==
    FirstFrameWellFormed =>
        /\ callRet.ret # PyNone
        /\ callRet.response.status_code = 200
        /\ callRet.ret.FullBodyBuffer =
              PyBytes(SubSeq(call.parts.frame \o call.parts.rest, 1, call.parts.declared.i))
        /\ callRet.response.headers =
              << Header(s_contentType, call.parts.type.s),
                 Header(s_contentLength, IntToStr(call.parts.declared.i)) >>

\* C5: once the GET has returned a response object, the extractor leaves that
\* response closed however it exits: bad status, wrong content type, missing
\* terminator, missing fields, short read, exception, or success.
C5_ResponseClosedOnEveryExit ==
    (Extracted /\ call.made # PyNone) => callRet.response.closed

(***************************************************************************)
(* The JPEG header repairer: WebcamHelper._EnsureJpegHeaderInfo            *)
(***************************************************************************)
\* RequestsUtils.ReadAllContentFromStreamResponse(response): what the response
\* has not delivered yet, read to the end; nothing is left on a closed
\* response.  The read can also give None.
ReadAllOutcomes == {"read", "none"}

ReadAllContentFromStreamResponse(response, outcome) ==
    IF outcome = "none" THEN [buf |-> PyNone, response |-> response]
    ELSE [buf |-> PyBytes(IF response.closed THEN <<>> ELSE response.raw),
          response |-> [response EXCEPT !.raw = <<>>]]

\* bytearray(buf)
PyByteArray(b) == [t |-> "bytearray", b |-> b]

\* octoHttpResult.SetFullBodyBuffer(buf)
SetFullBodyBuffer(octoHttpResult, buf) == [octoHttpResult EXCEPT !.FullBodyBuffer = buf]

\* buf[i] for a 0-based index i that is in range.
At(buf, i) == buf[i + 1]

\* Lines 507-513: how far a segment that is not APP0 moves pos: past the two
\* marker bytes, then by the length its two length bytes declare.
SegmentAdvance_LengthOnly(buf, pos) == At(buf, pos + 2) * 256 + At(buf, pos + 3)

SegmentAdvance(buf, pos) == 2 + (At(buf, pos + 2) * 256 + At(buf, pos + 3))

\* Lines 456-513: one iteration of the loop, entered with pos < bufLen.  It
\* returns, finds APP0, raises, or goes on ("next") at a new pos.
WalkIteration(buf, pos) ==
    LET bufLen == Len(buf)
    IN  IF pos + 1 >= bufLen THEN [end |-> "return", pos |-> pos]
        ELSE IF At(buf, pos) # 255 THEN [end |-> "return", pos |-> pos]
        ELSE IF At(buf, pos + 1) = 218 THEN [end |-> "return", pos |-> pos]
        ELSE IF At(buf, pos + 1) = 224 THEN [end |-> "app0", pos |-> pos + 4]
        ELSE IF pos + 3 >= bufLen THEN [end |-> "raise", pos |-> pos + 2]
        ELSE [end |-> "next", pos |-> pos + SegmentAdvance(buf, pos)]

\* Lines 454-515, the while loop from pos on.  It ends at the APP0 segment
\* ("app0", with pos moved past the marker and size bytes), or returns the
\* result as it is ("return"), or an index past the buffer raises ("raise").
RECURSIVE SegmentWalk(_, _)
SegmentWalk(buf, pos) ==
    IF ~(pos < Len(buf)) THEN [end |-> "return", pos |-> pos]
    ELSE IF WalkIteration(buf, pos).end # "next" THEN WalkIteration(buf, pos)
    ELSE SegmentWalk(buf, WalkIteration(buf, pos).pos)

\* Line 476: needsChanges, read at the identifier's position.  The "or" chain
\* stops at the first test that is true; a test that reads past the end of
\* the buffer raises.  "yes", "no" or "raise".
RECURSIVE NeedsChanges(_, _, _)
NeedsChanges(buf, pos, k) ==
    IF pos + k >= Len(buf) THEN "raise"
    ELSE IF k < 5 THEN (IF At(buf, pos + k) = 0 THEN "yes" ELSE NeedsChanges(buf, pos, k + 1))
    ELSE IF At(buf, pos + 5) # 0 THEN "yes" ELSE "no"

\* Lines 485-501: the identifier bytes as rewritten in the bytearray.
s_JFIF == <<74, 70, 73, 70>>     \* "JFIF"

RewriteIdentifier_Keep(buf, pos) == buf

RewriteIdentifier_SixthByte(buf, pos) ==
    [i \in 1..Len(buf) |->
        IF i - 1 >= pos /\ i - 1 <= pos + 3 /\ buf[i] = 0 THEN s_JFIF[i - pos]
        ELSE IF i - 1 = pos + 5 THEN 0
        ELSE buf[i]]

RewriteIdentifier(buf, pos) ==
    [i \in 1..Len(buf) |->
        IF i - 1 >= pos /\ i - 1 <= pos + 3 /\ buf[i] = 0 THEN s_JFIF[i - pos]
        ELSE IF i - 1 = pos + 4 THEN 0
        ELSE buf[i]]

\* Lines 517-520: an exception of the walk is caught and the result returned
\* as it was given.
WalkException_Drop(octoHttpResult) == PyNone

WalkException(octoHttpResult) == octoHttpResult

\* Lines 445-524: the result with the body it is left with.
RepairBuffer(octoHttpResult, buf) ==
    IF Len(buf) < 2 THEN octoHttpResult
    ELSE IF At(buf, 0) # 255 \/ At(buf, 1) # 216 THEN octoHttpResult
    ELSE
    LET walk == SegmentWalk(buf, 2)
    IN  IF walk.end = "raise" THEN WalkException(octoHttpResult)
        ELSE IF walk.end = "return" THEN octoHttpResult
        \* an index past the end raises, at line 476 or in lines 486-499
        ELSE IF NeedsChanges(buf, walk.pos, 0) = "raise" THEN WalkException(octoHttpResult)
        ELSE IF NeedsChanges(buf, walk.pos, 0) = "no" THEN octoHttpResult
        ELSE IF walk.pos + 4 >= Len(buf) THEN WalkException(octoHttpResult)
        ELSE SetFullBodyBuffer(octoHttpResult, PyByteArray(RewriteIdentifier(buf, walk.pos)))

\* What _EnsureJpegHeaderInfo returns when the body read gives None.
NoBodyResult_Keep(octoHttpResult) == octoHttpResult

NoBodyResult(octoHttpResult) == PyNone

\* Which body the repairer scans: always a fresh read of the response.
BodyToScan(octoHttpResult, response, outcome) ==
    ReadAllContentFromStreamResponse(response, outcome)

\* WebcamHelper._EnsureJpegHeaderInfo(octoHttpResult): the result it returns
\* and the response object as the read leaves it.
EnsureJpegHeaderInfo(octoHttpResult, response, outcome) ==
    IF octoHttpResult = PyNone THEN [ret |-> octoHttpResult, response |-> response]
    ELSE IF octoHttpResult.Result = PyNone THEN [ret |-> octoHttpResult, response |-> response]
    ELSE
    LET rd == BodyToScan(octoHttpResult, response, outcome)
    IN  IF rd.buf = PyNone
        THEN [ret |-> NoBodyResult(octoHttpResult), response |-> rd.response]
        ELSE [ret |-> RepairBuffer(SetFullBodyBuffer(octoHttpResult, rd.buf), rd.buf.b),
              response |-> rd.response]

(***************************************************************************)
(* The transform header: WebcamHelper._AddOeWebcamTransformHeader          *)
(***************************************************************************)
s_OeWebcamTransformHeaderKey ==     \* "x-oe-webcam-transform"
    <<120, 45, 111, 101, 45, 119, 101, 98, 99, 97, 109, 45, 116, 114, 97, 110,
      115, 102, 111, 114, 109>>
s_fliph == <<102, 108, 105, 112, 104, 32>>          \* "fliph "
s_flipv == <<102, 108, 105, 112, 118, 32>>          \* "flipv "
s_rotate == <<114, 111, 116, 97, 116, 101, 61>>     \* "rotate="
s_None == <<78, 111, 110, 101>>                     \* "None"
s_True == <<84, 114, 117, 101>>                     \* "True"
s_False == <<70, 97, 108, 115, 101>>                \* "False"

\* str(v)
StrOf(v) ==
    CASE v.t = "int" -> IntToStr(v.i)
      [] v.t = "str" -> v.s
      [] v.t = "bool" -> (IF v.b THEN s_True ELSE s_False)
      [] v.t = "none" -> s_None

\* Lines 402-413: the transform string of a camera's settings.
TransformStr_FlipsOnly(settings) ==
    IF PyTruthy(settings.FlipH) \/ PyTruthy(settings.FlipV)
    THEN (IF PyTruthy(settings.FlipH) THEN s_fliph ELSE <<>>)
           \o (IF PyTruthy(settings.FlipV) THEN s_flipv ELSE <<>>)
    ELSE s_none

TransformStr(settings) ==
    IF PyTruthy(settings.FlipH) \/ PyTruthy(settings.FlipV) \/ ~PyEqInt(settings.Rotation, 0)
    THEN (IF PyTruthy(settings.FlipH) THEN s_fliph ELSE <<>>)
           \o (IF PyTruthy(settings.FlipV) THEN s_flipv ELSE <<>>)
           \o (IF ~PyEqInt(settings.Rotation, 0)
               THEN s_rotate \o StrOf(settings.Rotation) \o <<32>> ELSE <<>>)
    ELSE s_none

\* response.headers[name] = value on the response's case-insensitive header map.
SetHeader(headers, name, value) ==
    LET at == {k \in 1..Len(headers) : Lower(headers[k].name) = Lower(name)}
    IN  IF at = {} THEN Append(headers, Header(name, value))
        ELSE [k \in 1..Len(headers) |-> IF k \in at THEN Header(name, value) ELSE headers[k]]

\* response.headers[name], PyNone when the map has no such header.
GetHeader(headers, name) ==
    LET at == {k \in 1..Len(headers) : Lower(headers[k].name) = Lower(name)}
    IN  IF at = {} THEN PyNone ELSE PyStr(headers[CHOOSE k \in at : TRUE].value)

\* WebcamHelper._AddOeWebcamTransformHeader(octoHttpResult, cameraName), given
\* the camera that _GetWebcamSettingObj(cameraName) resolves to now: the value
\* returned (Raised when reading a field of None raises AttributeError) and the
\* response's header map as it is left.
AddOeWebcamTransformHeader(octoHttpResult, response, settings) ==
    IF octoHttpResult = PyNone THEN [ret |-> octoHttpResult, response |-> response]
    ELSE IF octoHttpResult.Result = PyNone THEN [ret |-> octoHttpResult, response |-> response]
    ELSE IF settings = PyNone THEN [ret |-> Raised, response |-> response]
    ELSE [ret |-> octoHttpResult,
          response |-> [response EXCEPT
              !.headers = SetHeader(@, s_OeWebcamTransformHeaderKey, TransformStr(settings))]]

(***************************************************************************)
(* The URL getters                                                         *)
(***************************************************************************)
\* WebcamHelper.GetSnapshotUrl(cameraName), given the camera it resolves to.
GetSnapshotUrl(obj) == IF obj = PyNone THEN PyNone ELSE obj.SnapshotUrl

\* WebcamHelper.GetWebcamStreamUrl(cameraName), given the camera it resolves to.
GetWebcamStreamUrl(obj) == IF obj = PyNone THEN PyNone ELSE obj.StreamUrl

(***************************************************************************)
(* A request: GetSnapshot(cameraName) or GetWebcamStream(cameraName), run  *)
(* step by step from one query of the platform's camera list to the next,  *)
(* while the user may reconfigure the cameras.                             *)
(***************************************************************************)
\* OctoHttpRequest.MakeHttpCall(url, pathType, "GET", {}, allowRedirects=True)
\* at one call site, given what the network gives: None, a result without a
\* response object, or a result holding the response.
MakeHttpCall(site, url, outcome) ==
    CASE outcome.t = "none" -> [ret |-> PyNone, response |-> PyNone]
      [] outcome.t = "noresponse" ->
            [ret |-> OctoHttpResult(PyNone, url, FALSE, PyNone), response |-> PyNone]
      [] outcome.t = "response" ->
            [ret |-> OctoHttpResult(ResponseAt(site), url, FALSE, PyNone),
             response |-> outcome]

NoResponseObject == [t |-> "noresponse"]

\* Line 203: the snapshot call's result is taken as the answer.
SnapshotSucceeded_Never(octoHttpResult, response) == FALSE

SnapshotSucceeded(octoHttpResult, response) ==
    /\ octoHttpResult # PyNone
    /\ octoHttpResult.Result # PyNone
    /\ response.status_code = 200

\* Line 207: the camera name the stream fallback asks the stream URL for:
\* self.GetWebcamStreamUrl() is called without one.
FallbackCameraName(cameraName) == PyNone

\* The response object a result refers to, PyNone when it has none.
ResponseOf(octoHttpResult) ==
    IF octoHttpResult = PyNone THEN PyNone
    ELSE IF octoHttpResult.Result = PyNone THEN PyNone
    ELSE responses[octoHttpResult.Result.site]

\* The response objects after the one a result refers to was changed in place.
WithResponse(octoHttpResult, response) ==
    IF octoHttpResult = PyNone THEN responses
    ELSE IF octoHttpResult.Result = PyNone THEN responses
    ELSE [responses EXCEPT ![octoHttpResult.Result.site] = response]

\* One line of the log of HTTP calls.
LogEntry(site, url, outcome, reads) ==
    [site |-> site, url |-> url, outcome |-> outcome, reads |-> reads,
     status |-> IF outcome.t = "response" THEN outcome.status_code ELSE 0]

\* The camera of the pool with a given name.
Camera(name) == CHOOSE c \in CameraPool : c.Name = PyStr(name)

\* The camera lists the platform has during a request: none, an empty one, a
\* single camera (with both URLs, without a snapshot URL, without a stream
\* URL), and two cameras.
RequestConfigs ==
    {CfgNone, CfgList(<<>>),
     CfgList(<<Camera(s_Cam1)>>), CfgList(<<Camera(s_cam1)>>), CfgList(<<Camera(s_Back)>>),
     CfgList(<<Camera(s_CAM2), Camera(s_Cam1)>>)}

RequestCameraNames == {PyNone, PyStr(s_cam1)}

RequestFiles == {FileAbsent, FileObject(TRUE, PyStr(s_cam2))}

\* The size of the frames the cameras serve during a request.
SnapshotFrameSize == 16

\* A multipart stream that serves one JPEG frame and then ends.
OneFrameStream(zeroed) ==
    Response(200, MultipartHeaders,
             PartHeader(s_boundaryLine, PyStr(s_imageJpeg), PyInt(SnapshotFrameSize), TRUE)
                \o JpegFrame(SnapshotFrameSize, zeroed))

NotFoundPage == Response(404, <<Header(s_ContentTypeName, s_textHtml)>>, s_textHtml)

JpegImage(zeroed) ==
    Response(200, <<Header(s_ContentTypeName, s_imageJpeg)>>, JpegFrame(SnapshotFrameSize, zeroed))

\* What a GET on a snapshot URL gives.
SnapshotOutcomes ==
    {PyNone, NoResponseObject, NotFoundPage, JpegImage(TRUE), JpegImage(FALSE),
     Response(200, <<Header(s_ContentTypeName, s_textHtml)>>, s_textHtml)}

\* What a GET on a stream URL gives.
StreamOutcomes ==
    {PyNone, NoResponseObject, NotFoundPage, JpegImage(FALSE),
     OneFrameStream(TRUE), OneFrameStream(FALSE),
     Response(200, MultipartHeaders,
              PartHeader(s_boundaryLine, PyStr(s_imageJpeg), PyInt(SnapshotFrameSize), TRUE)
                 \o JpegFrame(SnapshotFrameSize, TRUE) \o NextPart)}

\* How the extractor's two reads go during a request.
RequestReadPairs == {<<"full", "full">>, <<"short", "full">>, <<"timeout", "full">>}

\* How often the user reconfigures the cameras while one request runs.
MaxPlatformChanges == 1

Init ==
    /\ webcamConfig \in RequestConfigs
    /\ octoPrintSettings = PyNone
    /\ settingsFile \in RequestFiles
    /\ DefaultCameraName = LoadDefaultCameraName(settingsFile, "ok").DefaultCameraName
    /\ call = Idle
    /\ callRet = NotReturned
    /\ RequestIdle

\* A caller enters GetSnapshot(cameraName).
StartGetSnapshot ==
    /\ pc = "idle"
    /\ \E cameraName \in RequestCameraNames :
          call' = [fn |-> "GetSnapshot", cameraName |-> cameraName]
    /\ pc' = "snapshot"
    /\ UNCHANGED <<platformVars, storeVars, callRet, httpLog, responses, result,
                   resolved, changes>>

\* A caller enters GetWebcamStream(cameraName).
StartGetWebcamStream ==
    /\ pc = "idle"
    /\ \E cameraName \in RequestCameraNames :
          call' = [fn |-> "GetWebcamStream", cameraName |-> cameraName]
    /\ pc' = "stream"
    /\ UNCHANGED <<platformVars, storeVars, callRet, httpLog, responses, result,
                   resolved, changes>>

\* _GetSnapshotInternal, lines 194-204: the GET on the snapshot URL.
SnapshotTier ==
    /\ pc = "snapshot"
    /\ LET obj == GetWebcamSettingObj(webcamConfig, DefaultCameraName, call.cameraName)
           snapshotUrl == GetSnapshotUrl(obj)
       IN  /\ resolved' = Append(resolved, obj)
           /\ IF snapshotUrl = PyNone
              THEN /\ pc' = "fallback"
                   /\ UNCHANGED <<httpLog, responses, result>>
              ELSE \E outcome \in SnapshotOutcomes :
                     LET mk == MakeHttpCall("snapshot", snapshotUrl, outcome)
                     IN  /\ httpLog' = Append(httpLog,
                                LogEntry("snapshot", snapshotUrl, outcome, <<>>))
                         /\ responses' = [responses EXCEPT !.snapshot = mk.response]
                         /\ IF SnapshotSucceeded(mk.ret, mk.response)
                            THEN result' = mk.ret /\ pc' = "repair"
                            ELSE result' = PyNone /\ pc' = "fallback"
    /\ UNCHANGED <<platformVars, storeVars, callVars, changes>>

\* _GetSnapshotInternal, lines 206-211: the stream URL is asked for, and a
\* frame is extracted from the stream it names.
StreamFallback ==
    /\ pc = "fallback"
    /\ LET obj == GetWebcamSettingObj(webcamConfig, DefaultCameraName,
                                      FallbackCameraName(call.cameraName))
           streamUrl == GetWebcamStreamUrl(obj)
       IN  /\ resolved' = Append(resolved, obj)
           /\ IF streamUrl = PyNone
              THEN /\ result' = PyNone
                   /\ UNCHANGED <<httpLog, responses>>
              ELSE \E outcome \in StreamOutcomes, m \in RequestReadPairs :
                     LET mk == MakeHttpCall("fallback", streamUrl, outcome)
                         \* line 221: no result, or a result without a response
                         made == IF mk.ret = PyNone THEN PyNone ELSE mk.response
                         ext == GetSnapshotFromStream(streamUrl, made, m[1], m[2])
                     IN  /\ httpLog' = Append(httpLog,
                                LogEntry("fallback", streamUrl, outcome, m))
                         /\ responses' = [responses EXCEPT !.fallback = ext.response]
                         /\ result' = ext.ret
    /\ pc' = "repair"
    /\ UNCHANGED <<platformVars, storeVars, callVars, changes>>

\* GetSnapshot, line 189: _EnsureJpegHeaderInfo on what _GetSnapshotInternal gave.
RepairStep ==
    /\ pc = "repair"
    /\ \E outcome \in ReadAllOutcomes :
          LET e == EnsureJpegHeaderInfo(result, ResponseOf(result), outcome)
          IN  /\ result' = e.ret
              /\ responses' = WithResponse(result, e.response)
    /\ pc' = "transform"
    /\ UNCHANGED <<platformVars, storeVars, callVars, httpLog, resolved, changes>>

\* _GetWebcamStreamInternal, lines 165-178: the GET on the stream URL.
StreamTier ==
    /\ pc = "stream"
    /\ LET obj == GetWebcamSettingObj(webcamConfig, DefaultCameraName, call.cameraName)
           webcamStreamUrl == GetWebcamStreamUrl(obj)
       IN  /\ resolved' = Append(resolved, obj)
           /\ IF webcamStreamUrl = PyNone
              THEN /\ result' = PyNone
                   /\ UNCHANGED <<httpLog, responses>>
              ELSE \E outcome \in StreamOutcomes :
                     LET mk == MakeHttpCall("stream", webcamStreamUrl, outcome)
                     IN  /\ httpLog' = Append(httpLog,
                                LogEntry("stream", webcamStreamUrl, outcome, <<>>))
                         /\ responses' = [responses EXCEPT !.stream = mk.response]
                         /\ result' = mk.ret
    /\ pc' = "transform"
    /\ UNCHANGED <<platformVars, storeVars, callVars, changes>>

\* GetSnapshot line 189 and GetWebcamStream line 162: _AddOeWebcamTransformHeader
\* on the result, and the return to the caller.  The camera is asked for only
\* when the result holds a response.
TransformStep ==
    /\ pc = "transform"
    /\ LET response == ResponseOf(result)
           obj == GetWebcamSettingObj(webcamConfig, DefaultCameraName, call.cameraName)
           a == AddOeWebcamTransformHeader(result, response, obj)
       IN  /\ resolved' = IF response = PyNone THEN resolved ELSE Append(resolved, obj)
           /\ callRet' = a.ret
           /\ responses' = WithResponse(result, a.response)
    /\ pc' = "done"
    /\ UNCHANGED <<platformVars, storeVars, call, httpLog, result, changes>>

\* The user reconfigures the cameras of the platform while the request runs.
CamerasChange ==
    /\ pc \notin {"idle", "done"}
    /\ changes < MaxPlatformChanges
    /\ webcamConfig' \in RequestConfigs \ {webcamConfig}
    /\ changes' = changes + 1
    /\ UNCHANGED <<octoPrintSettings, storeVars, callVars, pc, httpLog, responses,
                   result, resolved>>

Next ==
    \/ StartGetSnapshot
    \/ StartGetWebcamStream
    \/ SnapshotTier
    \/ StreamFallback
    \/ RepairStep
    \/ StreamTier
    \/ TransformStep
    \/ CamerasChange

Spec == Init /\ [][Next]_vars

\* The request has returned to its caller (or raised).
Done(fn) == pc = "done" /\ call.fn = fn

\* The calls the request made at one site.
CallsAt(site) == {i \in 1..Len(httpLog) : httpLog[i].site = site}

\* C1: during GetSnapshot a GET for frame extraction is made on the stream URL
\* only if the GET on the snapshot URL did not give status 200 (or no snapshot
\* URL is configured, so that no such GET was made); once the snapshot GET has
\* given 200, no call to the stream URL is ever logged.
C1_FallbackOnlyAfterSnapshotFailure ==
    \A i \in CallsAt("fallback") :
        /\ call.fn = "GetSnapshot"
        /\ \A j \in CallsAt("snapshot") : j < i /\ httpLog[j].status # 200
        /\ CallsAt("snapshot") = {} => resolved[1] = PyNone \/ resolved[1].SnapshotUrl = PyNone

\* C1 witness: a GetSnapshot request whose camera has a stream URL has
\* returned after a snapshot GET that gave 200, with that GET its only call.
C1_Witness ==
    /\ Done("GetSnapshot")
    /\ Len(httpLog) = 1
    /\ httpLog[1].site = "snapshot"
    /\ httpLog[1].status = 200
    /\ resolved[1].StreamUrl # PyNone
    /\ callRet \notin {PyNone, Raised}

\* C2: when GetSnapshot returns, if no GET of either tier gave status 200 the
\* return value is None; and a return value other than None holds a response
\* with status 200 and has its FullBodyBuffer set.
C2_NoneOrBuffered200 ==
    (Done("GetSnapshot") /\ callRet # Raised) =>
        /\ (\A i \in 1..Len(httpLog) : httpLog[i].status # 200) => callRet = PyNone
        /\ callRet # PyNone =>
              /\ callRet.Result # PyNone
              /\ responses[callRet.Result.site].status_code = 200
              /\ callRet.FullBodyBuffer # PyNone

\* C2 witness: GetSnapshot has returned a result, after a snapshot GET that
\* gave 200 or after both GETs.
C2_Witness ==
    /\ Done("GetSnapshot")
    /\ callRet \notin {PyNone, Raised}
    /\ callRet.FullBodyBuffer.t \in {"bytes", "bytearray"}
    /\ Len(callRet.FullBodyBuffer.b) = SnapshotFrameSize

\* The case of C3: GetSnapshot has ended, with the cameras unchanged, after a
\* snapshot GET that gave 404 and a stream GET that served one valid multipart
\* JPEG frame, every read delivered in full.
SnapshotNotFoundStreamServesFrame ==
    /\ Done("GetSnapshot")
    /\ changes = 0
    /\ Len(httpLog) = 2
    /\ httpLog[1].site = "snapshot"
    /\ httpLog[1].status = 404
    /\ httpLog[2].site = "fallback"
    /\ httpLog[2].outcome \in {OneFrameStream(TRUE), OneFrameStream(FALSE)}
    /\ httpLog[2].reads = <<"full", "full">>

\* C3: in that case GetSnapshot returns a successful result whose body is the
\* frame the stream served, with the JFIF identifier in place, and whose
\* x-oe-webcam-transform header is the transform of the requested camera.
C3_FallbackEndToEnd ==
    SnapshotNotFoundStreamServesFrame =>
        /\ callRet \notin {PyNone, Raised}
        /\ responses.fallback.status_code = 200
        /\ callRet.FullBodyBuffer # PyNone
        /\ callRet.FullBodyBuffer.b = JpegFrame(SnapshotFrameSize, FALSE)
        /\ GetHeader(responses.fallback.headers, s_OeWebcamTransformHeaderKey) =
              PyStr(TransformStr(GetWebcamSettingObj(webcamConfig, DefaultCameraName,
                                                     call.cameraName)))

\* C6: GetSnapshot and GetWebcamStream never raise to their caller, whatever
\* the HTTP calls give and however the camera list changes during the request.
C6_NeverRaises == callRet # Raised

(***************************************************************************)
(* The default camera name across restarts: the constructor loads it from  *)
(* the settings file, SetDefaultCameraName replaces it and writes the file.*)
(***************************************************************************)
\* Texts that are not JSON: an empty file, a truncated object, a name that is
\* not quoted.
MalformedTexts ==
    {<<>>, FileMalformed.text,
     <<123, 34>> \o s_DefaultWebcamName \o <<34, 58, 32>> \o s_cam1 \o <<125>>}

\* JSON without the key: an empty object, an object with another key, null.
NoKeyTexts ==
    {<<123, 125>>, JsonDumps(PyDict(<<s_Cam1>>, <<PyStr(s_cam1)>>)), s_null}

\* The key with an empty value: null or "".
EmptyValueTexts ==
    {FileObject(TRUE, PyNone).text, FileObject(TRUE, PyStr(<<>>)).text}

\* The key with a name, as written by hand (upper case, blanks, an escape) or
\* as a number.
NamedTexts ==
    {FileObject(TRUE, PyStr(s_CAM2)).text,
     <<32, 123, 10, 34>> \o s_DefaultWebcamName \o <<34, 32, 58, 34, 92, 117, 48, 48, 69, 57, 34, 125, 10>>,
     FileObject(TRUE, PyInt(7)).text}

StoreFiles ==
    {FileAbsent} \cup
    {FileWith(t) : t \in MalformedTexts \cup NoKeyTexts \cup EmptyValueTexts \cup NamedTexts}

\* The names a caller sets: plain, empty, with a quote and a backslash, with a
\* capital outside ASCII and a line feed, and U+0130.
StoreNames == {s_Cam1, s_cam2, <<>>, <<65, 34, 92>>, <<201, 10>>, <<304>>}

\* The call before this one, when it was SetDefaultCameraName.
PrevSet == IF call.fn = "SetDefaultCameraName" THEN call ELSE Idle

\* WebcamHelper.__init__ with the file as it is, and what its caller gets.
Construct(io) ==
    LET load == LoadDefaultCameraName(settingsFile, io)
    IN  /\ DefaultCameraName' = load.DefaultCameraName
        /\ call' = [fn |-> "__init__", file |-> settingsFile, io |-> io, prev |-> PrevSet]
        /\ callRet' = load.ret

InitStore ==
    /\ webcamConfig = CfgNone
    /\ octoPrintSettings = PyNone
    /\ RequestIdle
    /\ settingsFile \in StoreFiles
    /\ \E io \in {"ok", "error"} :
          LET load == LoadDefaultCameraName(settingsFile, io)
          IN  /\ DefaultCameraName = load.DefaultCameraName
              /\ call = [fn |-> "__init__", file |-> settingsFile, io |-> io, prev |-> Idle]
              /\ callRet = load.ret

\* The process restarts: a new instance is constructed on the same file.
Restart ==
    /\ \E io \in {"ok", "error"} : Construct(io)
    /\ UNCHANGED <<platformVars, settingsFile, requestVars>>

StoreSetDefaultCameraName ==
    \E name \in StoreNames, io \in {"ok", "open", "write"} :
        SetDefaultCameraName(name, io)

NextStore ==
    \/ Restart
    \/ StoreSetDefaultCameraName

SpecStore == InitStore /\ [][NextStore]_vars

\* C11: after SetDefaultCameraName(name) the in-memory default is the name in
\* lower case, also when the write of the settings file failed, and the
\* caller gets no exception.
C11_SetKeepsNameOnWriteFailure ==
    call.fn = "SetDefaultCameraName" =>
        /\ DefaultCameraName = PyStr(Lower(call.name.s))
        /\ callRet = PyNone

\* C11 witness: a write has failed and the default in memory is the new name,
\* which is not the name that was there before.
C11_Witness ==
    /\ call.fn = "SetDefaultCameraName"
    /\ call.io \in {"open", "write"}
    /\ call.before # PyStr(Lower(call.name.s))
    /\ call.before # PyNone
    /\ DefaultCameraName = PyStr(Lower(call.name.s))

\* An instance was constructed right after a SetDefaultCameraName(n) whose
\* write succeeded, and could read the file.
RestartedAfterSet ==
    /\ call.fn = "__init__"
    /\ call.io = "ok"
    /\ call.prev.fn = "SetDefaultCameraName"
    /\ call.prev.io = "ok"

\* C12: for every name n, SetDefaultCameraName(n) with a successful write and
\* then a restart on the same file leaves GetDefaultCameraName() equal to n in
\* lower case.
C12_RoundTripEveryName ==
    RestartedAfterSet => DefaultCameraName = PyStr(Lower(call.prev.name.s))

\* C12 as amended: the same for every name that is not empty; after the empty
\* name the restarted instance has no default.
C12_RoundTripNonEmptyName ==
    RestartedAfterSet =>
        DefaultCameraName =
            IF call.prev.name.s = <<>> THEN PyNone ELSE PyStr(Lower(call.prev.name.s))

\* C12 witness: a name that json.dumps has to escape has come back.
C12_Witness ==
    /\ RestartedAfterSet
    /\ call.prev.name.s = <<65, 34, 92>>
    /\ DefaultCameraName = PyStr(<<97, 34, 92>>)

\* The ways a load fails: no file, a file that cannot be read, text that is
\* not JSON, JSON without the key, the key with an empty value.
LoadFails ==
    \/ ~call.file.exists
    \/ call.io = "error"
    \/ call.file.text \in MalformedTexts \cup NoKeyTexts \cup EmptyValueTexts

\* C13: a constructor whose load of the default camera name fails leaves the
\* default camera name None and raises nothing.
C13_FailedLoadLeavesNone ==
    (call.fn = "__init__" /\ LoadFails) =>
        /\ DefaultCameraName = PyNone
        /\ callRet = PyNone

\* C13 witness: an instance that had a default name was restarted on a file
\* whose value is the empty string, and has none now.
C13_Witness ==
    /\ call.fn = "__init__"
    /\ call.io = "ok"
    /\ call.file = FileObject(TRUE, PyStr(<<>>))
    /\ call.prev # Idle
    /\ DefaultCameraName = PyNone

(***************************************************************************)
(* The URL normalizers                                                     *)
(***************************************************************************)
s_webrtc == <<47, 119, 101, 98, 114, 116, 99>>          \* "/webrtc"
s_webcam == <<119, 101, 98, 99, 97, 109>>               \* "webcam"
s_action == <<63, 97, 99, 116, 105, 111, 110, 61>>      \* "?action="
s_slash == <<47>>                                       \* "/"

\* s.find(sub, start): the least index from start on at which sub occurs in s,
\* or -1.
FindFrom(s, sub, start) ==
    LET hits == {i \in start..(Len(s) - Len(sub)) : \A j \in 1..Len(sub) : s[i + j] = sub[j]}
    IN  IF hits = {} THEN -1 ELSE CHOOSE i \in hits : \A k \in hits : i <= k

\* Lines 551-562: what is returned once "/webrtc" was looked for in the
\* lower-cased URL.
WebRtcTranslate(streamUrl, streamUrlLower, webRtcLocation) ==
    IF webRtcLocation = -1 THEN PyNone
    ELSE IF FindFrom(streamUrlLower, s_slash, webRtcLocation + 1) # -1 THEN PyNone
    ELSE PyStr(PySliceTo(streamUrl, webRtcLocation) \o s_stream)

\* WebcamHelper.DetectCameraStreamerWebRTCStreamUrlAndTranslate(streamUrl)
DetectCameraStreamerWebRTCStreamUrlAndTranslate(streamUrl) ==
    IF streamUrl = PyNone THEN PyNone
    ELSE WebRtcTranslate(streamUrl.s, Lower(streamUrl.s), Find(Lower(streamUrl.s), s_webrtc))

\* Lines 580-595: what is returned once "webcam" and "?action=" were looked
\* for in the lower-cased URL.
InsertSlash(webcamUrl, streamUrlLower, webcamLocation, actionLocation) ==
    IF webcamLocation = -1 \/ actionLocation = -1 THEN PyNone
    ELSE IF actionLocation = 0 THEN PyNone
    ELSE IF streamUrlLower[actionLocation] = 47 THEN PyNone
    ELSE PyStr(PySliceTo(webcamUrl, actionLocation) \o s_slash \o PySliceFrom(webcamUrl, actionLocation))

\* WebcamHelper.FixMissingSlashInWebcamUrlIfNeeded(webcamUrl); None has no
\* lower(), line 577.
FixMissingSlashInWebcamUrlIfNeeded(webcamUrl) ==
    IF webcamUrl = PyNone THEN Raised
    ELSE InsertSlash(webcamUrl.s, Lower(webcamUrl.s),
                     Find(Lower(webcamUrl.s), s_webcam), Find(Lower(webcamUrl.s), s_action))

\* Stream URLs: a base and path segments after it.
UrlBases ==
    {<<>>,
     <<104, 116, 116, 112, 58, 47, 47, 104>>,              \* "http://h"
     <<72, 84, 84, 80, 58, 47, 47, 72>>,                   \* "HTTP://H"
     <<104, 116, 116, 112, 58, 47, 47, 119, 101, 98, 114, 116, 99, 46, 108, 111, 99, 97, 108>>,
                                                           \* "http://webrtc.local"
     <<104, 116, 116, 112, 58, 47, 47, 304>>}              \* "http://" U+0130

UrlSegments ==
    {s_webrtc,
     <<47, 87, 101, 98, 82, 84, 67>>,                      \* "/WebRTC"
     <<47, 99, 97, 109>>,                                  \* "/cam"
     <<47, 119, 101, 98, 114, 116, 99, 120>>}              \* "/webrtcx"

MaxSegments == 2

SegmentLists == UNION {[1..n -> UrlSegments] : n \in 0..MaxSegments}

RECURSIVE Concat(_, _)
Concat(segments, n) ==
    IF n = 0 THEN <<>> ELSE Concat(segments, n - 1) \o segments[n]

\* Webcam URLs: the text before the query and the query.
UrlPaths ==
    {<<>>,
     s_webcam,
     <<47, 119, 101, 98, 99, 97, 109, 47>>,                \* "/webcam/"
     <<104, 116, 116, 112, 58, 47, 47, 104, 47, 87, 69, 66, 67, 65, 77, 56, 54>>,
                                                           \* "http://h/WEBCAM86"
     <<104, 116, 116, 112, 58, 47, 47, 104, 47, 99, 97, 109>>,
                                                           \* "http://h/cam"
     <<104, 116, 116, 112, 58, 47, 47, 304, 47, 119, 101, 98, 99, 97, 109>>,
                                                           \* "http://" U+0130 "/webcam"
     <<104, 116, 116, 112, 58, 47, 47, 304, 47, 119, 101, 98, 99, 97, 109, 47>>}
                                                           \* "http://" U+0130 "/webcam/"

UrlQueries ==
    {<<>>,
     <<63, 97, 99, 116, 105, 111, 110, 61, 115, 116, 114, 101, 97, 109>>,
                                                           \* "?action=stream"
     <<63, 65, 67, 84, 73, 79, 78, 61, 115, 110, 97, 112, 115, 104, 111, 116>>,
                                                           \* "?ACTION=snapshot"
     <<63, 97, 99, 116, 105, 111, 110, 61, 119, 101, 98, 99, 97, 109>>}
                                                           \* "?action=webcam"

DetectCalls ==
    {[fn |-> "DetectCameraStreamerWebRTCStreamUrlAndTranslate",
      url |-> PyStr(b \o Concat(l, Len(l))), before |-> b, after |-> l] :
         b \in UrlBases, l \in SegmentLists}
    \cup {[fn |-> "DetectCameraStreamerWebRTCStreamUrlAndTranslate",
           url |-> PyNone, before |-> <<>>, after |-> <<>>]}

FixCalls ==
    {[fn |-> "FixMissingSlashInWebcamUrlIfNeeded",
      url |-> PyStr(p \o q), before |-> p, after |-> q] :
         p \in UrlPaths, q \in UrlQueries}
    \cup {[fn |-> "FixMissingSlashInWebcamUrlIfNeeded",
           url |-> PyNone, before |-> <<>>, after |-> <<>>]}

InitUrl ==
    /\ PureCallIdle
    /\ call \in DetectCalls \cup FixCalls
    /\ callRet = NotReturned

CallDetect ==
    /\ call.fn = "DetectCameraStreamerWebRTCStreamUrlAndTranslate"
    /\ callRet = NotReturned
    /\ callRet' = DetectCameraStreamerWebRTCStreamUrlAndTranslate(call.url)
    /\ UNCHANGED <<platformVars, DefaultCameraName, settingsFile, call, requestVars>>

CallFix ==
    /\ call.fn = "FixMissingSlashInWebcamUrlIfNeeded"
    /\ callRet = NotReturned
    /\ callRet' = FixMissingSlashInWebcamUrlIfNeeded(call.url)
    /\ UNCHANGED <<platformVars, DefaultCameraName, settingsFile, call, requestVars>>

NextUrl ==
    \/ CallDetect
    \/ CallFix

SpecUrl == InitUrl /\ [][NextUrl]_vars

\* The path segment /webrtc, in any case.
IsWebRtc(segment) == Lower(segment) = s_webrtc

\* C14: a stream URL whose last path segment is /webrtc (in any case) is
\* translated to the URL before that segment followed by /stream; a URL in
\* which /webrtc is followed by another segment, or that does not contain
\* /webrtc, gives None.  (A URL with /webrtc both as last and as an earlier
\* segment is left out: the two halves of the sentence disagree about it.)
C14_TranslatesLastSegmentWebRtc ==
    (/\ call.fn = "DetectCameraStreamerWebRTCStreamUrlAndTranslate"
     /\ call.url # PyNone
     /\ callRet # NotReturned) =>
        LET n == Len(call.after)
            last == n > 0 /\ IsWebRtc(call.after[n])
            earlier == \E i \in 1..(n - 1) : IsWebRtc(call.after[i])
            absent == Find(Lower(call.url.s), s_webrtc) = -1
        IN  /\ (last /\ ~earlier) =>
                    callRet = PyStr(call.before \o Concat(call.after, n - 1) \o s_stream)
            /\ (~last /\ (earlier \/ absent)) => callRet = PyNone

\* C15: a webcam URL that contains webcam and ?action= (in any case) with
\* another character than / just before ?action= comes back with one / put
\* in just before ?action=; every other URL gives None.
C15_InsertsSlashBeforeAction ==
    (/\ call.fn = "FixMissingSlashInWebcamUrlIfNeeded"
     /\ call.url # PyNone
     /\ callRet # NotReturned) =>
        LET p == call.before
            both == /\ Find(Lower(call.url.s), s_webcam) # -1
                    /\ call.after # <<>>
        IN  IF both /\ p # <<>> /\ p[Len(p)] # 47
            THEN callRet = PyStr(p \o s_slash \o call.after)
            ELSE callRet = PyNone

\* C16: both normalizers return None or a string for every input, None and
\* the empty string among them, and never raise.
C16_NormalizersNeverRaise ==
    call.fn \in {"DetectCameraStreamerWebRTCStreamUrlAndTranslate",
                 "FixMissingSlashInWebcamUrlIfNeeded"} => callRet # Raised

(***************************************************************************)
(* The JPEG header repairer on buffers of every shape                      *)
(***************************************************************************)
s_SOI == <<255, 216>>               \* FF D8, start of image
s_APP0 == <<255, 224, 0, 16>>       \* FF E0 and the segment's size bytes
s_zeroed == <<0, 0, 0, 0, 0>>       \* an identifier that was not filled in
s_JFIF0 == <<74, 70, 73, 70, 0>>    \* "JFIF\0"

\* How a buffer starts: as a JPEG, as a PNG, with one byte, with nothing.
BufferStarts == {s_SOI, <<137, 80>>, <<255>>, <<>>}

\* Segments before APP0 that a header may hold: none, a comment without
\* text, a segment with one byte.
HeaderLeads == {<<>>, <<255, 254, 0, 2>>, <<255, 219, 0, 3, 7>>}

\* Other bytes before APP0: start of scan, a segment that does not begin
\* with FF, a segment of declared length 0, a segment whose declared length
\* points past the end of the buffer.
OtherLeads ==
    {<<255, 218, 0, 2>>, <<0, 1, 0, 2>>, <<255, 254, 0, 0>>, <<255, 254, 127, 255>>}

\* The identifier of the APP0 segment: zeroed, correct, partly zeroed, and
\* another five bytes without a zero.
Identifiers == {s_zeroed, s_JFIF0, <<74, 0, 0, 70, 1>>, <<69, 120, 105, 102, 49>>}

\* The bytes after the identifier.
BufferRests == {<<>>, <<0, 17>>, <<1, 17>>}

\* How many bytes the buffer lacks at its end.
MaxCut == 2

RepairCalls ==
    {[fn |-> "_EnsureJpegHeaderInfo", start |-> st, lead |-> ld, app0 |-> a, rest |-> r,
      cut |-> c, outcome |-> o,
      buf |-> PySliceTo(st \o ld \o a \o r, Len(st \o ld \o a \o r) - c)] :
        st \in BufferStarts, ld \in HeaderLeads \cup OtherLeads,
        a \in {<<>>} \cup {s_APP0 \o id : id \in Identifiers},
        r \in BufferRests, c \in 0..MaxCut, o \in ReadAllOutcomes}

InitRepair ==
    /\ PureCallIdle
    /\ call \in {c \in RepairCalls : c.cut <= Len(c.start \o c.lead \o c.app0 \o c.rest)}
    /\ callRet = NotReturned

\* _EnsureJpegHeaderInfo on the result of a GET whose response has the
\* buffer as its body, not read yet.
CallEnsureJpegHeaderInfo ==
    /\ call.fn = "_EnsureJpegHeaderInfo"
    /\ callRet = NotReturned
    /\ callRet' = EnsureJpegHeaderInfo(
                      OctoHttpResult(ResponseAt("snapshot"), PyStr(s_snap), FALSE, PyNone),
                      Response(200, <<>>, call.buf), call.outcome)
    /\ UNCHANGED <<platformVars, DefaultCameraName, settingsFile, call, requestVars>>

\* _EnsureJpegHeaderInfo once more, on the result of a GET whose response
\* has the body the first call returned.
CallEnsureJpegHeaderInfoAgain ==
    /\ call.fn = "_EnsureJpegHeaderInfo"
    /\ callRet # NotReturned
    /\ callRet.ret # PyNone
    /\ call' = [call EXCEPT !.fn = "_EnsureJpegHeaderInfo again"]
                  @@ [repaired |-> callRet.ret.FullBodyBuffer.b]
    /\ callRet' = EnsureJpegHeaderInfo(
                      OctoHttpResult(ResponseAt("snapshot"), PyStr(s_snap), FALSE, PyNone),
                      Response(200, <<>>, callRet.ret.FullBodyBuffer.b), "read")
    /\ UNCHANGED <<platformVars, DefaultCameraName, settingsFile, requestVars>>

NextRepair ==
    \/ CallEnsureJpegHeaderInfo
    \/ CallEnsureJpegHeaderInfoAgain

SpecRepair == InitRepair /\ [][NextRepair]_vars

\* The repairer has returned for a body that was read.
Repaired ==
    /\ call.fn = "_EnsureJpegHeaderInfo"
    /\ call.outcome = "read"
    /\ callRet # NotReturned

\* A whole JPEG buffer whose first APP0 segment has the identifier id.
JpegWithIdentifier(id) ==
    /\ call.start = s_SOI
    /\ call.lead \in HeaderLeads
    /\ call.app0 = s_APP0 \o id
    /\ call.cut = 0

\* C17: a JPEG buffer whose first APP0 segment has a zeroed identifier comes
\* back with the identifier JFIF\0 and every other byte as it was; one whose
\* identifier is JFIF\0 comes back with the same bytes; a buffer that does not
\* start with FF D8 comes back as it was.
C17_RepairsZeroedIdentifierOnly ==
    Repaired =>
        /\ JpegWithIdentifier(s_zeroed) =>
              callRet.ret.FullBodyBuffer.b = call.start \o call.lead \o s_APP0 \o s_JFIF0 \o call.rest
        /\ JpegWithIdentifier(s_JFIF0) => callRet.ret.FullBodyBuffer.b = call.buf
        /\ ~StartsWith(call.buf, s_SOI) => callRet.ret.FullBodyBuffer = PyBytes(call.buf)

\* C17 witness: a buffer with a comment segment before an APP0 segment whose
\* identifier is zeroed has been repaired, and differs from what was read.
C17_Witness ==
    /\ Repaired
    /\ JpegWithIdentifier(s_zeroed)
    /\ call.lead # <<>>
    /\ call.rest # <<>>
    /\ callRet.ret.FullBodyBuffer.b # call.buf
    /\ SubSeq(callRet.ret.FullBodyBuffer.b, Len(call.start \o call.lead) + 5,
              Len(call.start \o call.lead) + 9) = s_JFIF0

(***************************************************************************)
(* GetWebcamStream                                                         *)
(***************************************************************************)
\* The response as the GET left it, but for its x-oe-webcam-transform header.
OnlyTransformHeaderAdded(outcome, response) ==
    /\ response.status_code = outcome.status_code
    /\ response.raw = outcome.raw
    /\ response.closed = outcome.closed
    /\ response.reads = outcome.reads
    /\ GetHeader(response.headers, s_OeWebcamTransformHeaderKey) # PyNone
    /\ response.headers =
          SetHeader(outcome.headers, s_OeWebcamTransformHeaderKey,
                    GetHeader(response.headers, s_OeWebcamTransformHeaderKey).s)

\* What GetWebcamStream is to return after its one GET.
StreamPassedThrough ==
    /\ Len(httpLog) = 1
    /\ httpLog[1].site = "stream"
    /\ httpLog[1].url = resolved[1].StreamUrl
    /\ callRet = MakeHttpCall("stream", httpLog[1].url, httpLog[1].outcome).ret
    /\ httpLog[1].outcome.t = "response" =>
          OnlyTransformHeaderAdded(httpLog[1].outcome, responses.stream)

\* C18: GetWebcamStream returns None without any HTTP call when no camera
\* resolves or the resolved camera has no stream URL; otherwise it makes
\* exactly one GET, on the stream URL, and returns what that call returned,
\* changed by nothing but the added transform header.
C18_StreamPassThrough ==
    Done("GetWebcamStream") =>
        IF resolved[1] = PyNone \/ resolved[1].StreamUrl = PyNone
        THEN callRet = PyNone /\ httpLog = <<>>
        ELSE StreamPassedThrough

(***************************************************************************)
(* The transform header for every combination of flips and rotation        *)
(***************************************************************************)
\* The cameras the header is computed for.
TransformCameras ==
    {WebcamSettingItem(PyStr(s_Cam1), PyStr(s_snap), PyStr(s_stream),
                       PyBool(h), PyBool(v), PyInt(90 * q)) :
        h \in BOOLEAN, v \in BOOLEAN, q \in 0..MaxQuarterTurns}

\* The responses the header is set on: without the header, and with a value
\* for it already there under a name in another case.
TransformResponses ==
    {JpegImage(FALSE), NotFoundPage, OneFrameStream(FALSE),
     Response(200, <<Header(s_ContentTypeName, s_imageJpeg),
                     Header(<<88, 45, 79, 69, 45, 87, 101, 98, 99, 97, 109, 45, 84, 114, 97, 110, 115, 102, 111, 114, 109>>,
                            s_Cam1),        \* "X-OE-Webcam-Transform"
                     Header(s_Cam1, s_cam1)>>, <<>>)}

InitTransform ==
    /\ PureCallIdle
    /\ call \in {[fn |-> "_AddOeWebcamTransformHeader", settings |-> c, response |-> r] :
                    c \in TransformCameras, r \in TransformResponses}
    /\ callRet = NotReturned

\* _AddOeWebcamTransformHeader on the result of a GET that gave the response,
\* for the camera the name resolves to.
CallAddOeWebcamTransformHeader ==
    /\ call.fn = "_AddOeWebcamTransformHeader"
    /\ callRet = NotReturned
    /\ callRet' = AddOeWebcamTransformHeader(
                      OctoHttpResult(ResponseAt("stream"), call.settings.StreamUrl, FALSE, PyNone),
                      call.response, call.settings)
    /\ UNCHANGED <<platformVars, DefaultCameraName, settingsFile, call, requestVars>>

NextTransform == CallAddOeWebcamTransformHeader

SpecTransform == InitTransform /\ [][NextTransform]_vars

\* The tokens of a header value: its pieces between spaces, the empty pieces
\* left out.
Tokens(value) == SelectSeq(Split(value, <<32>>), LAMBDA piece : piece # <<>>)

\* The tokens the claim lists for a camera, in its order.
ClaimedTokens(settings) ==
    (IF settings.FlipH.b THEN << <<102, 108, 105, 112, 104>> >> ELSE <<>>)          \* "fliph"
      \o (IF settings.FlipV.b THEN << <<102, 108, 105, 112, 118>> >> ELSE <<>>)     \* "flipv"
      \o (IF settings.Rotation.i # 0
          THEN << <<114, 111, 116, 97, 116, 101, 61>> \o NatToStr(settings.Rotation.i) >>
          ELSE <<>>)                                                                \* "rotate=<n>"

\* The header has been set on the response of a result.
HeaderSet == call.fn = "_AddOeWebcamTransformHeader" /\ callRet # NotReturned

\* C19: the transform header is "none" exactly when the camera has FlipH
\* false, FlipV false and Rotation 0; otherwise its tokens are, in this order,
\* fliph (iff FlipH), flipv (iff FlipV) and rotate=<Rotation> (iff Rotation is
\* not 0), and no other token.
C19_TransformHeaderTokens ==
    HeaderSet =>
        LET value == GetHeader(callRet.response.headers, s_OeWebcamTransformHeaderKey)
            plain == /\ ~call.settings.FlipH.b
                     /\ ~call.settings.FlipV.b
                     /\ call.settings.Rotation.i = 0
        IN  /\ value # PyNone
            /\ plain <=> (value.s = <<110, 111, 110, 101>>)                        \* "none"
            /\ ~plain => Tokens(value.s) = ClaimedTokens(call.settings)

\* C19 witness: the header of a camera with both flips and a rotation of 270
\* has been set, over a value that was there before.
C19_Witness ==
    /\ HeaderSet
    /\ call.settings.FlipH.b
    /\ call.settings.FlipV.b
    /\ call.settings.Rotation.i = 270
    /\ GetHeader(call.response.headers, s_OeWebcamTransformHeaderKey) = PyStr(s_Cam1)
    /\ Len(Tokens(GetHeader(callRet.response.headers, s_OeWebcamTransformHeaderKey).s)) = 3

(***************************************************************************)
(* The item OctoPrint's GetWebcamConfig builds                             *)
(***************************************************************************)
\* A URL setting, or the default when the setting is absent or empty.
UrlOrDefault(setting, default) ==
    IF setting = PyNone \/ setting = PyStr(<<>>) THEN PyStr(default) ELSE setting

\* A flag of the webcam section, else of the classicwebcam plugin, else false.
FlagOrFalse(setting, pluginSetting) ==
    IF setting # PyNone THEN setting
    ELSE IF pluginSetting # PyNone THEN pluginSetting
    ELSE PyBool(FALSE)

\* C20: with a settings object, OctoPrint's GetWebcamConfig returns exactly
\* one item; its SnapshotUrl and StreamUrl are the configured URLs, or the
\* defaults /webcam/?action=snapshot and /webcam/?action=stream when the
\* setting is absent or empty; its FlipH and FlipV are the configured flips,
\* false when absent; its Rotation is 270 when rotate90 is set, else 0.
C20_OctoPrintItemFields ==
    octoPrintSettings # PyNone =>
        /\ webcamConfig.st = "list"
        /\ Len(webcamConfig.items) = 1
        /\ LET item == webcamConfig.items[1]
               s == octoPrintSettings
           IN  /\ item.SnapshotUrl = UrlOrDefault(s.snapshot, s_defaultSnapshot)
               /\ item.StreamUrl = UrlOrDefault(s.stream, s_defaultStream)
               /\ item.FlipH = FlagOrFalse(s.flipH, s.cFlipH)
               /\ item.FlipV = FlagOrFalse(s.flipV, s.cFlipV)
               /\ item.Rotation =
                     IF FlagOrFalse(s.rotate90, s.cRotate90) = PyBool(TRUE)
                     THEN PyInt(270) ELSE PyInt(0)

(***************************************************************************)
(* The camera list during one request                                      *)
(***************************************************************************)
\* C21: within one GetSnapshot or GetWebcamStream request the snapshot URL,
\* the stream URL and the transform header all come from one fetch of the
\* camera list: every camera the request resolved is the same camera, also
\* when the platform's list changes while the request runs.
C21_OneCameraListPerRequest ==
    pc = "done" =>
        \A i \in 1..Len(resolved), j \in 1..Len(resolved) : resolved[i] = resolved[j]

(***************************************************************************)
(* The repairer on a result that is already buffered                       *)
(***************************************************************************)
\* Two bodies of the same length that differ at most in the five identifier
\* bytes of an APP0 segment that follows FF D8 at once.
SameApartFromIdentifier(old, new) ==
    /\ Len(new) = Len(old)
    /\ \A i \in 1..Len(old) : i \notin 7..11 => new[i] = old[i]

\* C22: a result that comes to the repairer with its body already buffered
\* (the frame extractor's result) is scanned in that buffer: the response is
\* not read again, and the body the repairer leaves is that buffer apart from
\* the identifier's bytes.
C22_BufferedBodyIsNotReadAgain ==
    [][(/\ pc = "repair"
        /\ result # PyNone
        /\ result.FullBodyBuffer # PyNone)
       => (/\ result' # PyNone
           /\ SameApartFromIdentifier(result.FullBodyBuffer.b, result'.FullBodyBuffer.b)
           /\ responses' = responses)]_vars

\* The bytes the first read of HeaderReadSize bytes can deliver at most.
FirstRead ==
    LET body == call.made.raw
    IN  SubSeq(body, 1, IF Len(body) < HeaderReadSize THEN Len(body) ELSE HeaderReadSize)

\* The first part's header block, when its terminator lies in the first read,
\* lacks a Content-Type field, or lacks a Content-Length field or declares 0.
FirstBlockLacksField ==
    /\ call.parts.terminated
    /\ Len(PartHeader(call.parts.prefix, call.parts.type, call.parts.declared, TRUE))
          <= HeaderReadSize
    /\ \/ call.parts.type = PyNone
       \/ call.parts.declared = PyNone
       \/ call.parts.declared = PyInt(0)

\* C23: the extraction returns no result whenever the part-header terminator
\* is absent from the first 300 bytes, or the first part's header block (the
\* lines before the terminator) has no Content-Type field, or has no
\* Content-Length field or one of zero; fields that appear after the
\* terminator do not satisfy the requirement.
C23_NoResultWithoutFirstPartFields ==
    (/\ Extracted
     /\ call.parts # PyNone
     /\ \/ Find(FirstRead, s_CRLFCRLF) = -1
        \/ FirstBlockLacksField)
    => callRet.ret = PyNone

\* What the extractor's first read delivered, and what the part-header scan
\* of lines 263-292 made of it.
FirstReadData == RawRead(call.made, HeaderReadSize, call.m1).data

FirstReadFields ==
    ScanPartHeaders(PartHeaderLines(Decode(FirstReadData), 0), 1,
        [frameSizeInt |-> 0, contentType |-> PyNone, raised |-> FALSE])

TotalFrameSize ==
    FirstReadFields.frameSizeInt + Find(Decode(FirstReadData), s_CRLFCRLF) + 4

\* C24: the extractor reads the raw stream at most twice: once 300 bytes, and,
\* only if the bytes already read are fewer than totalFrameSize (the content
\* length plus the header block's length), once more exactly totalFrameSize
\* minus the bytes already read; when that read delivers less than it was
\* asked for, the extraction returns no result.
C24_AtMostTwoExactReads ==
    (Extracted /\ call.made # PyNone) =>
        LET reads == callRet.response.reads
            left == Len(call.made.raw) - Len(FirstReadData)
        IN  /\ Len(reads) <= 2
            /\ (Len(reads) >= 1 => reads[1] = 300)
            /\ (Len(reads) = 2 =>
                  /\ Len(FirstReadData) < TotalFrameSize
                  /\ reads[2] = TotalFrameSize - Len(FirstReadData)
                  /\ (call.m2 # "full" \/ left < reads[2]) => callRet.ret = PyNone)

C24_Witness ==
    /\ Extracted
    /\ call.made # PyNone
    /\ Len(callRet.response.reads) = 2
    /\ Len(call.made.raw) >= TotalFrameSize
    /\ call.m2 = "short"
    /\ callRet.ret = PyNone

\* The 6 bytes after the marker and size bytes of the first APP0 segment of
\* the buffer that was read, and what follows them.
InspectedBytes == SubSeq(call.app0 \o call.rest, 5, 10)

AfterInspected == PySliceFrom(call.app0 \o call.rest, 10)

\* The case of C25: a JPEG buffer whose first APP0 segment has all 6 bytes.
SixBytesInspected ==
    /\ Repaired
    /\ call.start = s_SOI
    /\ call.lead \in HeaderLeads
    /\ call.app0 # <<>>
    /\ call.cut = 0
    /\ Len(call.rest) >= 1

\* C25: at the first APP0 segment, if any of the first 5 of the 6 bytes after
\* the marker and length bytes is zero or the 6th is not zero, every zero byte
\* among the first 4 becomes the byte of "JFIF" at its place and the 6th byte
\* becomes zero; otherwise no byte is rewritten.
C25_RewritesFirstFourAndSixth ==
    SixBytesInspected =>
        LET six == InspectedBytes
            nonConformant == (\E k \in 1..5 : six[k] = 0) \/ six[6] # 0
            rewritten == [k \in 1..6 |->
                            IF k <= 4 /\ six[k] = 0 THEN s_JFIF[k]
                            ELSE IF k = 6 THEN 0
                            ELSE six[k]]
        IN  callRet.ret.FullBodyBuffer.b =
                call.start \o call.lead \o s_APP0
                    \o (IF nonConformant THEN rewritten ELSE six) \o AfterInspected

\* How many bytes of the APP0 segment and of what follows it the buffer holds.
BytesFromApp0 == Len(call.buf) - Len(call.start \o call.lead)

\* The case of C26: a buffer that starts as a JPEG and whose walk meets a
\* segment that does not begin with FF, start of scan, a declared length of 0
\* or past the end, no APP0 segment at all, or an APP0 segment cut short so
\* that an index past the end of the buffer is used.
WalkGivesUp ==
    /\ Repaired
    /\ StartsWith(call.buf, s_SOI)
    /\ \/ call.lead \in OtherLeads
       \/ call.app0 = <<>>
       \/ BytesFromApp0 <= 8
       \/ BytesFromApp0 = 9 /\ \A k \in 5..9 : call.app0[k] # 0

\* C26: when the segment walk meets a segment that does not begin with FF,
\* reaches start of scan before an APP0 segment, runs out of buffer or raises
\* an exception, the result is returned, still successful, with its body
\* byte for byte as it was read.
C26_GivingUpKeepsTheResult ==
    WalkGivesUp =>
        /\ callRet.ret # PyNone
        /\ callRet.ret.FullBodyBuffer = PyBytes(call.buf)
        /\ callRet.ret.Result = ResponseAt("snapshot")
        /\ callRet.response.status_code = 200

\* C26 witness: the zeroed identifier of the APP0 segment is cut one byte
\* short, so that the rewrite raises at its last byte.
C26_Witness ==
    /\ WalkGivesUp
    /\ call.lead \in HeaderLeads
    /\ call.app0 = s_APP0 \o s_zeroed
    /\ BytesFromApp0 = 8
    /\ callRet.ret.FullBodyBuffer = PyBytes(call.buf)

(***************************************************************************)
(* SetDefaultCameraName called by several requests at once.  Nothing in    *)
(* lines 601-611 holds a lock, so the calls' statements interleave: the    *)
(* assignment of line 603, the read of self.DefaultCameraName of lines     *)
(* 605-607, open(mode="w") of line 608, and the write of line 609 that    *)
(* reaches the file, from the file object's own position 0, when the with *)
(* block closes it.  Every open and every write succeeds.                  *)
(***************************************************************************)
Callers == {"request1", "request2"}

s_BackCam1 == s_Back \o s_Cam1      \* "BackCam1"

ConcurrentNames == {s_Cam1, s_cam2, s_BackCam1}

\* The store as an instance that has been running leaves it: nothing set
\* yet, or a name set before.
ConcurrentStores ==
    {[DefaultCameraName |-> PyNone, settingsFile |-> FileAbsent],
     [DefaultCameraName |-> PyStr(s_cam1),
      settingsFile |-> FileWith(JsonDumps(PyDict(<<s_DefaultWebcamName>>, <<PyStr(s_cam1)>>)))]}

\* f.write(text) on a file object at position 0, flushed to the file as it
\* is then: the text replaces the bytes at its place, what lies past it stays.
WriteAtStart(file, text) ==
    FileWith(text \o (IF file.exists THEN PySliceFrom(file.text, Len(text)) ELSE <<>>))

InitConcurrent ==
    /\ webcamConfig = CfgNone
    /\ octoPrintSettings = PyNone
    /\ RequestIdle
    /\ \E store \in ConcurrentStores :
          /\ DefaultCameraName = store.DefaultCameraName
          /\ settingsFile = store.settingsFile
    /\ call \in {[fn |-> "concurrent", threads |-> th] :
                    th \in [Callers -> {[at |-> "called", name |-> PyStr(n), settings |-> PyNone] :
                                            n \in ConcurrentNames}]}
    /\ callRet = NotReturned

\* Lines 602-603: name = name.lower(); self.DefaultCameraName = name
AssignDefaultCameraName(c) ==
    /\ call.threads[c].at = "called"
    /\ DefaultCameraName' = PyStr(Lower(call.threads[c].name.s))
    /\ call' = [call EXCEPT !.threads[c].at = "assigned"]
    /\ UNCHANGED <<platformVars, settingsFile, callRet, requestVars>>

\* Lines 605-607: settings = {"DefaultWebcamName": self.DefaultCameraName}
BuildSettings(c) ==
    /\ call.threads[c].at = "assigned"
    /\ call' = [call EXCEPT !.threads[c].at = "built",
                            !.threads[c].settings =
                                PyDict(<<s_DefaultWebcamName>>, <<DefaultCameraName>>)]
    /\ UNCHANGED <<platformVars, storeVars, callRet, requestVars>>

\* Line 608: open(self.SettingsFilePath, mode="w") truncates the file.
OpenSettingsFile(c) ==
    /\ call.threads[c].at = "built"
    /\ settingsFile' = FileWith(<<>>)
    /\ call' = [call EXCEPT !.threads[c].at = "opened"]
    /\ UNCHANGED <<platformVars, DefaultCameraName, callRet, requestVars>>

\* Line 609 and the end of the with block: the text reaches the file.
WriteSettingsFile(c) ==
    /\ call.threads[c].at = "opened"
    /\ settingsFile' = WriteAtStart(settingsFile, JsonDumps(call.threads[c].settings))
    /\ call' = [call EXCEPT !.threads[c].at = "returned"]
    /\ callRet' = IF \A d \in Callers \ {c} : call.threads[d].at = "returned"
                  THEN PyNone ELSE callRet
    /\ UNCHANGED <<platformVars, DefaultCameraName, requestVars>>

NextConcurrent ==
    \E c \in Callers :
        \/ AssignDefaultCameraName(c)
        \/ BuildSettings(c)
        \/ OpenSettingsFile(c)
        \/ WriteSettingsFile(c)

SpecConcurrent == InitConcurrent /\ [][NextConcurrent]_vars

AllReturned ==
    /\ call.fn = "concurrent"
    /\ \A c \in Callers : call.threads[c].at = "returned"

\* C27: when several requests call SetDefaultCameraName concurrently and every
\* write succeeds, then once all calls have returned the name in the settings
\* file is the default name in memory: a restart loads the value that
\* GetDefaultCameraName() gave before it.
C27_FileEqualsMemoryAfterConcurrentSets ==
    AllReturned =>
        LoadDefaultCameraName(settingsFile, "ok").DefaultCameraName = DefaultCameraName

(***************************************************************************)
(* The camera of the image and the camera of the transform header          *)
(***************************************************************************)
\* The camera whose URL the GET behind a returned result was made on: the
\* one resolved for the snapshot tier, or the one resolved for the fallback.
ImageCamera ==
    IF callRet.Result.site = "snapshot" THEN resolved[1] ELSE resolved[2]

\* C28: the x-oe-webcam-transform header on a result of GetSnapshot is the
\* transform of the camera whose URL gave the image, also when the image came
\* from the stream fallback and the request named a camera that is not the
\* default one.  (The camera list does not change during the request.)
C28_HeaderDescribesImageCamera ==
    (/\ Done("GetSnapshot")
     /\ changes = 0
     /\ callRet \notin {PyNone, Raised})
    => GetHeader(responses[callRet.Result.site].headers, s_OeWebcamTransformHeaderKey)
          = PyStr(TransformStr(ImageCamera))

\* C29: whenever the extractor returns a result, its body is not empty and
\* the body's length is the Content-Length the part header declared (whatever
\* the declared value, negative and oversized ones too) and is the value of
\* the result's content-length header.
C29_BodyLengthIsDeclaredLength ==
    (Extracted /\ call.parts # PyNone /\ callRet.ret # PyNone) =>
        /\ Len(callRet.ret.FullBodyBuffer.b) > 0
        /\ call.parts.declared = PyInt(Len(callRet.ret.FullBodyBuffer.b))
        /\ GetHeader(callRet.response.headers, s_contentLength)
              = PyStr(IntToStr(Len(callRet.ret.FullBodyBuffer.b)))

(***************************************************************************)
(* What the repair may change                                              *)
(***************************************************************************)
\* The places (from 1) of the five identifier bytes that follow the marker
\* and size bytes of the APP0 segment of the buffer that was read.
IdentifierPlaces ==
    IF call.app0 = <<>> THEN {}
    ELSE (Len(call.start \o call.lead) + 5)..(Len(call.start \o call.lead) + 9)

\* The repairer has returned for the body its first call returned.
RepairedAgain ==
    /\ call.fn = "_EnsureJpegHeaderInfo again"
    /\ callRet # NotReturned

\* C30: for every buffer the repair returns a body of the same length that
\* differs from the buffer at most in the five identifier bytes after the
\* marker and length bytes of the first APP0 segment, and the repair of a
\* repaired body returns the same bytes.
C30_RepairTouchesOnlyIdentifier ==
    /\ Repaired =>
          /\ Len(callRet.ret.FullBodyBuffer.b) = Len(call.buf)
          /\ \A i \in 1..Len(call.buf) :
                callRet.ret.FullBodyBuffer.b[i] # call.buf[i] => i \in IdentifierPlaces
    /\ RepairedAgain =>
          /\ callRet.ret # PyNone
          /\ callRet.ret.FullBodyBuffer.b = call.repaired

\* C30 witness: a buffer whose identifier was partly zeroed and was followed
\* by a byte that is not zero has been repaired, and repaired once more.
C30_Witness ==
    /\ RepairedAgain
    /\ call.app0 = s_APP0 \o <<74, 0, 0, 70, 1>>
    /\ call.rest = <<1, 17>>
    /\ call.cut = 0
    /\ call.repaired # call.buf
    /\ callRet.ret.FullBodyBuffer.b = call.repaired

(***************************************************************************)
(* The segment walk of _EnsureJpegHeaderInfo, one loop iteration at a      *)
(* time: lines 452-524 on a buffer that starts with FF D8.                 *)
(***************************************************************************)
\* Buffers with two segments before what follows: each of them a header
\* segment, one of declared length 0, or one that points past the end.
TwoLeads ==
    {a \o b : a \in HeaderLeads \ {<<>>},
              b \in HeaderLeads \cup {<<255, 254, 0, 0>>, <<255, 254, 127, 255>>}}

WalkBuffers ==
    {c.buf : c \in {r \in RepairCalls : StartsWith(r.buf, s_SOI)}}
    \cup {s_SOI \o ld \o s_APP0 \o s_zeroed \o <<0, 17>> : ld \in TwoLeads}

\* Line 452: pos = 2, before the first test of the while condition.
InitWalk ==
    /\ PureCallIdle
    /\ call \in {[fn |-> "walk", buf |-> b, pos |-> 2, iterations |-> 0] : b \in WalkBuffers}
    /\ callRet = NotReturned

\* Lines 454-513: the while condition holds and one iteration runs.  (An
\* iteration advances pos by 2 at least, so the guard on the number of
\* iterations never stops the walk of the code; it bounds the states of a
\* walk that does not advance.)
WalkIterate ==
    /\ call.fn = "walk"
    /\ callRet = NotReturned
    /\ call.pos < Len(call.buf)
    /\ call.iterations <= Len(call.buf)
    /\ LET it == WalkIteration(call.buf, call.pos)
       IN  /\ call' = [call EXCEPT !.pos = it.pos, !.iterations = @ + 1]
           /\ callRet' = IF it.end = "next" THEN NotReturned ELSE [end |-> it.end]
    /\ UNCHANGED <<platformVars, storeVars, requestVars>>

\* Lines 454 and 522-524: the while condition fails and the function returns.
WalkFallOut ==
    /\ call.fn = "walk"
    /\ callRet = NotReturned
    /\ ~(call.pos < Len(call.buf))
    /\ callRet' = [end |-> "return"]
    /\ UNCHANGED <<platformVars, storeVars, call, requestVars>>

NextWalk ==
    \/ WalkIterate
    \/ WalkFallOut

\* The thread that runs the walk keeps running.
SpecWalk == InitWalk /\ [][NextWalk]_vars /\ WF_vars(NextWalk)

\* C31: the segment walk ends for every buffer, also with a segment that
\* declares length 0 or a length past the end of the buffer: every loop
\* iteration returns or leaves pos greater than it was, and the function
\* returns in the end.
C31_WalkTerminates ==
    /\ [][WalkIterate => (callRet' # NotReturned \/ call'.pos > call.pos)]_vars
    /\ <>(callRet # NotReturned)

\* C31 witness: the walk has returned after more than one iteration, the
\* last of them on a segment that declares length 0.
C31_Witness ==
    /\ call.fn = "walk"
    /\ callRet # NotReturned
    /\ call.iterations >= 3
    /\ SubSeq(call.buf, Len(call.buf) - 14, Len(call.buf) - 11) = <<255, 254, 0, 0>>

====
